---------------------------- MODULE Spec2Model ----------------------------
(***************************************************************************)
(* Query, ranking and pagination engine of the chess-player service        *)
(* (PlayersService on top of BaseService), as a state machine: the record  *)
(* store holds a fixed population, a request is served in one step by one  *)
(* service operation, and the response (or the error the error handler     *)
(* turns into a status) is recorded together with the store queries the    *)
(* operation issued.  The environment of a run is the NODE_ENV setting and  *)
(* the store query, if any, that the store fails.                          *)
(***************************************************************************)
EXTENDS Integers, Sequences, FiniteSets, TLC

VARIABLES players, currentYear, pc, req, res, collected, nodeEnv, storeFault

vars == <<players, currentYear, pc, req, res, collected, nodeEnv, storeFault>>

(***************************************************************************)
(* Bounds of the model.                                                    *)
(***************************************************************************)
MaxPlayers == 3

MaxPage == 3

MaxFault == 2

(***************************************************************************)
(* JavaScript values.  Text that the code parses is a sequence of          *)
(* one-character strings; undefined and null are one-element sequences     *)
(* that no text equals.  Short codes that are only compared (gender, group *)
(* code, flag, federation) are TLA+ strings.                               *)
(***************************************************************************)
Undefined == <<"undefined">>

NullValue == <<"null">>

NoParam == "<undefined>"

NullFlag == "<null>"

Digits == {"0", "1", "2", "3", "4", "5", "6", "7", "8", "9"}

DigitVal(c) ==
    CASE c = "0" -> 0 [] c = "1" -> 1 [] c = "2" -> 2 [] c = "3" -> 3
      [] c = "4" -> 4 [] c = "5" -> 5 [] c = "6" -> 6 [] c = "7" -> 7
      [] c = "8" -> 8 [] c = "9" -> 9
      [] c \in {"a", "A"} -> 10 [] c \in {"b", "B"} -> 11
      [] c \in {"c", "C"} -> 12 [] c \in {"d", "D"} -> 13
      [] c \in {"e", "E"} -> 14 [] c \in {"f", "F"} -> 15
      [] OTHER -> 99

DigitChar(d) ==
    CASE d = 0 -> "0" [] d = 1 -> "1" [] d = 2 -> "2" [] d = 3 -> "3"
      [] d = 4 -> "4" [] d = 5 -> "5" [] d = 6 -> "6" [] d = 7 -> "7"
      [] d = 8 -> "8" [] OTHER -> "9"

\* UTF-16 code unit of the characters the model uses (string comparison).
CharCode(c) ==
    CASE c = " " -> 32 [] c = "+" -> 43 [] c = "-" -> 45 [] c = "." -> 46
      [] c \in Digits -> 48 + DigitVal(c)
      [] c \in {"A", "B", "C", "D", "E", "F"} -> 55 + DigitVal(c)
      [] c \in {"a", "b", "c", "d", "e", "f"} -> 87 + DigitVal(c)
      [] c = "l" -> 108 [] c = "n" -> 110 [] c = "u" -> 117
      [] c = "x" -> 120 [] OTHER -> 122

\* String(v): undefined and null print as words, text stays as it is.
JSString(v) ==
    IF v = Undefined THEN <<"u", "n", "d", "e", "f", "i", "n", "e", "d">>
    ELSE IF v = NullValue THEN <<"n", "u", "l", "l">>
    ELSE v

\* String(n) for an integer n >= 0.
RECURSIVE NatToStr(_)
NatToStr(n) ==
    IF n < 10 THEN <<DigitChar(n)>>
    ELSE Append(NatToStr(n \div 10), DigitChar(n % 10))

\* a <= b for two texts, compared code unit by code unit.
RECURSIVE StrLeq(_, _)
StrLeq(a, b) ==
    IF a = <<>> THEN TRUE
    ELSE IF b = <<>> THEN FALSE
    ELSE IF CharCode(Head(a)) < CharCode(Head(b)) THEN TRUE
    ELSE IF CharCode(Head(a)) > CharCode(Head(b)) THEN FALSE
    ELSE StrLeq(Tail(a), Tail(b))

NaN == [nan |-> TRUE, val |-> 0]

Num(n) == [nan |-> FALSE, val |-> n]

RECURSIVE SkipSpaces(_)
SkipSpaces(s) ==
    IF s # <<>> /\ Head(s) = " " THEN SkipSpaces(Tail(s)) ELSE s

\* Value of the longest prefix of s made of digits of the radix; acc is the
\* value read so far and any tells whether a digit was read.
RECURSIVE ReadDigits(_, _, _, _)
ReadDigits(s, radix, acc, any) ==
    IF s # <<>> /\ DigitVal(Head(s)) < radix
    THEN ReadDigits(Tail(s), radix, acc * radix + DigitVal(Head(s)), TRUE)
    ELSE IF any THEN Num(acc) ELSE NaN

\* parseInt(text) without a radix argument.
ParseInt(text) ==
    LET s == SkipSpaces(text)
        neg == s # <<>> /\ Head(s) = "-"
        t == IF s # <<>> /\ Head(s) \in {"+", "-"} THEN Tail(s) ELSE s
        hex == Len(t) >= 2 /\ t[1] = "0" /\ t[2] \in {"x", "X"}
        r == IF hex THEN ReadDigits(Tail(Tail(t)), 16, 0, FALSE)
             ELSE ReadDigits(t, 10, 0, FALSE)
    IN  IF r.nan THEN NaN ELSE Num(IF neg THEN 0 - r.val ELSE r.val)

\* n || d : NaN and 0 are falsy.
OrElse(n, d) == IF n.nan \/ n.val = 0 THEN d ELSE n.val

Max(a, b) == IF a >= b THEN a ELSE b

Min(a, b) == IF a <= b THEN a ELSE b

\* Math.ceil(a / b) for a >= 0, b > 0.
CeilDiv(a, b) == (a + b - 1) \div b

LowerLetters ==
    <<"a", "b", "c", "d", "e", "f", "g", "h", "i", "j", "k", "l", "m",
      "n", "o", "p", "q", "r", "s", "t", "u", "v", "w", "x", "y", "z">>

UpperLetters ==
    <<"A", "B", "C", "D", "E", "F", "G", "H", "I", "J", "K", "L", "M",
      "N", "O", "P", "Q", "R", "S", "T", "U", "V", "W", "X", "Y", "Z">>

UpperChar(c) ==
    IF \E i \in 1..26 : LowerLetters[i] = c
    THEN UpperLetters[CHOOSE i \in 1..26 : LowerLetters[i] = c]
    ELSE c

LowerChar(c) ==
    IF \E i \in 1..26 : UpperLetters[i] = c
    THEN LowerLetters[CHOOSE i \in 1..26 : UpperLetters[i] = c]
    ELSE c

\* toUpperCase that leaves the text as it was given.
Upper_AsGiven(text) == text

\* text.toUpperCase()
Upper(text) == [i \in 1..Len(text) |-> UpperChar(text[i])]

Lower(text) == [i \in 1..Len(text) |-> LowerChar(text[i])]

\* text.trim() === ""
IsBlank(text) == SkipSpaces(text) = <<>>

IsSubstring(pattern, text) ==
    \E i \in 0..(Len(text) - Len(pattern)) :
        SubSeq(text, i + 1, i + Len(pattern)) = pattern

\* text.trim(): the text without the spaces at its two ends.
RECURSIVE DropTrailingSpaces(_)
DropTrailingSpaces(s) ==
    IF s # <<>> /\ s[Len(s)] = " " THEN DropTrailingSpaces(SubSeq(s, 1, Len(s) - 1))
    ELSE s

Trim(text) == DropTrailingSpaces(SkipSpaces(text))

\* if (param): undefined and the empty text are falsy
Given(param) == param # Undefined /\ param # <<>>

\* the same for a parameter held as a code
GivenCode(param) == param # NoParam /\ param # ""

(***************************************************************************)
(* Pagination Engine.                                                      *)
(***************************************************************************)
DefaultPage == 0

DefaultSize == 20

MinSize == 1

MaxSize == 100

\* validatePagination without the upper clamp on size.
validatePagination_NoUpperClamp(page, size) ==
    [page |-> Max(0, OrElse(ParseInt(JSString(page)), DefaultPage)),
     size |-> Max(MinSize, OrElse(ParseInt(JSString(size)), DefaultSize))]

validatePagination(page, size) ==
    [page |-> Max(0, OrElse(ParseInt(JSString(page)), DefaultPage)),
     size |-> Min(MaxSize, Max(MinSize, OrElse(ParseInt(JSString(size)), DefaultSize)))]


(***************************************************************************)
(* Record store (the mongoose model behind BaseService).  A predicate      *)
(* specification maps a field name to one condition on that field.         *)
(***************************************************************************)
EmptyFilter == <<>>

\* filter.<field> = cond: a later assignment to the same field overwrites.
With(filter, field, cond) == (field :> cond) @@ filter

Eq(v) == [op |-> "eq", v |-> v]

In(vs) == [op |-> "in", vs |-> vs]

Between(lo, hi) == [op |-> "between", gte |-> lo, lte |-> hi]

\* { $regex: pattern, $options: "i" } for a pattern of plain letters
Regex(pattern) == [op |-> "regex", pattern |-> pattern]

\* { $in: [code] } on an array field
Contains(vs) == [op |-> "contains", vs |-> vs]

\* { $exists: true, $ne: [] } on an array field
NonEmpty == [op |-> "nonempty"]

NoBound == [has |-> FALSE, val |-> 0]

Bound(n) == [has |-> TRUE, val |-> n]

\* { $gte: lo, $lte: hi } on a number field, each bound optional
NumRange(lo, hi) == [op |-> "numrange", gte |-> lo, lte |-> hi]

ActiveFlags == {NullFlag, "", "w"}

InactiveFlags == {"i", "wi"}

\* One condition on one field value.  A range over text matches text only:
\* a null value satisfies no $gte / $lte against a string.
MatchCond(value, cond) ==
    CASE cond.op = "eq" -> value = cond.v
      [] cond.op = "in" -> value \in cond.vs
      [] cond.op = "between" ->
            /\ value # NullValue
            /\ StrLeq(cond.gte, value)
            /\ StrLeq(value, cond.lte)
      [] cond.op = "regex" -> IsSubstring(Lower(cond.pattern), Lower(value))
      [] cond.op = "contains" -> value \cap cond.vs # {}
      [] cond.op = "nonempty" -> value # {}
      [] cond.op = "numrange" ->
            /\ (cond.gte.has => value >= cond.gte.val)
            /\ (cond.lte.has => value <= cond.lte.val)
      [] OTHER -> FALSE

Matches(player, filter) ==
    \A field \in DOMAIN filter : MatchCond(player[field], filter[field])

NoSort == "<none>"

\* Insert a record into a list sorted descending by the sort field, after
\* the records that are not smaller (records that tie keep store order).
RECURSIVE InsertDesc(_, _, _)
InsertDesc(sorted, player, field) ==
    IF sorted = <<>> THEN <<player>>
    ELSE IF Head(sorted)[field] >= player[field]
         THEN <<Head(sorted)>> \o InsertDesc(Tail(sorted), player, field)
         ELSE <<player>> \o sorted

\* The sort that leaves the rows in store order.
SortDesc_AsStored(rows, field) == rows

RECURSIVE SortDesc(_, _)
SortDesc(rows, field) ==
    IF rows = <<>> THEN <<>>
    ELSE InsertDesc(SortDesc(SubSeq(rows, 1, Len(rows) - 1), field),
                    rows[Len(rows)], field)

\* find that takes the limit as the end position of the page.
find_LimitAsEnd(store, filter, sort, skip, limit) ==
    LET matched == SelectSeq(store, LAMBDA player : Matches(player, filter))
        ordered == IF sort = NoSort THEN matched ELSE SortDesc(matched, sort)
    IN  SubSeq(ordered, skip + 1, Min(Len(ordered), limit))

\* Model.find(filter, null, {sort, skip, limit})
find(store, filter, sort, skip, limit) ==
    LET matched == SelectSeq(store, LAMBDA player : Matches(player, filter))
        ordered == IF sort = NoSort THEN matched ELSE SortDesc(matched, sort)
    IN  SubSeq(ordered, skip + 1, Min(Len(ordered), skip + limit))

\* Model.countDocuments(filter)
countDocuments(store, filter) ==
    Len(SelectSeq(store, LAMBDA player : Matches(player, filter)))

\* Model.findOne(filter): the first matching record, or none.
findOne(store, filter) ==
    LET matched == SelectSeq(store, LAMBDA player : Matches(player, filter))
    IN  IF matched = <<>> THEN <<>> ELSE <<Head(matched)>>

FindOneQuery(filter) ==
    [call |-> "findOne", filter |-> filter, sort |-> NoSort, skip |-> 0, limit |-> 0]

FindQuery(filter, sort, skip, limit) ==
    [call |-> "find", filter |-> filter, sort |-> sort, skip |-> skip, limit |-> limit]

CountQuery(filter) ==
    [call |-> "countDocuments", filter |-> filter, sort |-> NoSort, skip |-> 0, limit |-> 0]

(***************************************************************************)
(* BaseService.getRows: one page of the matching records and the count.    *)
(***************************************************************************)
\* getRows that skips page * limit records (the one-indexed page not
\* brought back to an offset).
getRows_SkipOnePageMore(store, filter, page, limit, sort) ==
    LET skip == page * limit
        data == find(store, filter, sort, skip, limit)
        total == countDocuments(store, filter)
    IN  [data |-> data, total |-> total, page |-> page, limit |-> limit,
         totalPages |-> CeilDiv(total, limit),
         hasNext |-> page * limit < total,
         hasPrev |-> page > 1,
         queries |-> <<FindQuery(filter, sort, skip, limit), CountQuery(filter)>>]

\* getRows whose hasNext is still true on an exactly filled last page.
getRows_HasNextOnLastPage(store, filter, page, limit, sort) ==
    LET skip == (page - 1) * limit
        data == find(store, filter, sort, skip, limit)
        total == countDocuments(store, filter)
    IN  [data |-> data, total |-> total, page |-> page, limit |-> limit,
         totalPages |-> CeilDiv(total, limit),
         hasNext |-> page * limit <= total,
         hasPrev |-> page > 1,
         queries |-> <<FindQuery(filter, sort, skip, limit), CountQuery(filter)>>]

getRows(store, filter, page, limit, sort) ==
    LET skip == (page - 1) * limit
        data == find(store, filter, sort, skip, limit)
        total == countDocuments(store, filter)
    IN  [data |-> data,
         total |-> total,
         page |-> page,
         limit |-> limit,
         totalPages |-> CeilDiv(total, limit),
         hasNext |-> page * limit < total,
         hasPrev |-> page > 1,
         queries |-> <<FindQuery(filter, sort, skip, limit), CountQuery(filter)>>]


(***************************************************************************)
(* BaseService.singleRow: the record that matches, if there is one.        *)
(***************************************************************************)
singleRow(store, filter) ==
    [row |-> findOne(store, filter), queries |-> <<FindOneQuery(filter)>>]

(***************************************************************************)
(* Outcomes of a service operation: a result, or a thrown error.  Each     *)
(* carries the store queries issued up to the return or the throw.         *)
(***************************************************************************)
NoMessage == [text |-> "", codes |-> <<>>]

NoPagination ==
    [page |-> 0, size |-> 0, totalItems |-> 0, totalPages |-> 0,
     hasNext |-> FALSE, hasPrevious |-> FALSE]

Thrown(kind, text, codes) ==
    [kind |-> kind, message |-> [text |-> text, codes |-> codes], data |-> <<>>,
     pagination |-> NoPagination, queries |-> <<>>, tag |-> <<>>]

BadRequest(text) == Thrown("BadRequestError", text, <<>>)

\* An error thrown once the given queries have been issued.
ThrownAfter(queries, kind, text) ==
    [Thrown(kind, text, <<>>) EXCEPT !.queries = queries]

\* A single record returned by a lookup.
Found(row, queries) ==
    [kind |-> "ok", message |-> NoMessage, data |-> row,
     pagination |-> NoPagination, queries |-> queries, tag |-> <<>>]

\* The pagination envelope every listing builds from getRows' result.
Listing(data, pageNum, sizeNum, result, tag) ==
    [kind |-> "ok", message |-> NoMessage, data |-> data,
     pagination |-> [page |-> pageNum,
                     size |-> sizeNum,
                     totalItems |-> result.total,
                     totalPages |-> result.totalPages,
                     hasNext |-> result.hasNext,
                     hasPrevious |-> pageNum > 0],
     queries |-> result.queries, tag |-> tag]

(***************************************************************************)
(* Ranking Assigner.                                                       *)
(***************************************************************************)
\* addRankToPlayers numbering from zero.
addRankToPlayers_FromZero(rows, pageNum, sizeNum) ==
    [i \in 1..Len(rows) |->
        ("rank" :> (pageNum * sizeNum) + (i - 1)) @@ rows[i]]

addRankToPlayers(rows, pageNum, sizeNum) ==
    [i \in 1..Len(rows) |->
        ("rank" :> (pageNum * sizeNum) + (i - 1) + 1) @@ rows[i]]

(***************************************************************************)
(* Filter Builder pieces shared by the listings.                           *)
(***************************************************************************)
GenderOk(gender) == gender \in {"M", "F"}

\* The filter that never restricts the flag.
WithActivity_Never(filter, includeInactive) == filter

\* filter.flag = { $in: [null, "", "w"] } unless inactive records are wanted
WithActivity(filter, includeInactive) ==
    IF includeInactive THEN filter ELSE With(filter, "flag", In(ActiveFlags))

RatingField(ratingType) ==
    CASE ratingType = "rapid" -> "rapid_rating"
      [] ratingType = "blitz" -> "blitz_rating"
      [] OTHER -> "standard_rating"

(***************************************************************************)
(* PlayersService: the rating rankings.                                    *)
(***************************************************************************)
getRankings(store, sortField, gender, federation, page, size, includeInactive) ==
    LET p == validatePagination(page, size)
        f1 == IF GivenCode(gender) THEN With(EmptyFilter, "sex", Eq(gender))
              ELSE EmptyFilter
        f2 == IF Given(federation) THEN With(f1, "federation", Eq(Upper(federation)))
              ELSE f1
        filter == WithActivity(f2, includeInactive)
        result == getRows(store, filter, p.page + 1, p.size, sortField)
    IN  IF GivenCode(gender) /\ ~GenderOk(gender)
        THEN BadRequest("Gender must be 'M' or 'F'")
        ELSE Listing(addRankToPlayers(result.data, p.page, p.size),
                     p.page, p.size, result, <<>>)

getRankingsStandard(store, gender, federation, page, size, includeInactive) ==
    getRankings(store, "standard_rating", gender, federation, page, size, includeInactive)

getRankingsRapid(store, gender, federation, page, size, includeInactive) ==
    getRankings(store, "rapid_rating", gender, federation, page, size, includeInactive)

getRankingsBlitz(store, gender, federation, page, size, includeInactive) ==
    getRankings(store, "blitz_rating", gender, federation, page, size, includeInactive)

(***************************************************************************)
(* PlayersService: the exact-identity lookups.                             *)
(***************************************************************************)
getPlayerById(store, id_number) ==
    LET filter == With(EmptyFilter, "id_number", Eq(Trim(id_number)))
        player == singleRow(store, filter)
    IN  IF ~Given(id_number) \/ IsBlank(id_number)
        THEN BadRequest("Player ID is required")
        ELSE IF player.row = <<>>
        THEN ThrownAfter(player.queries, "NotFoundError", "Player with ID not found")
        ELSE Found(player.row, player.queries)

searchByFideId(store, id_number) ==
    LET filter == With(EmptyFilter, "id_number", Eq(Trim(JSString(id_number))))
        player == singleRow(store, filter)
    IN  IF ~Given(id_number)
        THEN BadRequest("FIDE ID query parameter is required")
        ELSE IF player.row = <<>>
        THEN ThrownAfter(player.queries, "NotFoundError", "No player found with FIDE ID")
        ELSE Found(player.row, player.queries)

(***************************************************************************)
(* PlayersService: name search, advanced search, federation listing.       *)
(***************************************************************************)
searchByName(store, name, page, size) ==
    LET p == validatePagination(page, size)
        filter == With(EmptyFilter, "name", Regex(name))
        result == getRows(store, filter, p.page + 1, p.size, NoSort)
    IN  IF ~Given(name)
        THEN BadRequest("Search name is required")
        ELSE Listing(result.data, p.page, p.size, result, <<>>)

\* advancedSearch in which hasTitle adds to a specific title (an AND: the
\* specific-title predicate stays).
advancedSearch_TitleKept(store, federation, sex, title, minRating, maxRating, hasTitle, page, size) ==
    LET p == validatePagination(page, size)
        f1 == IF Given(federation)
              THEN With(EmptyFilter, "federation", Eq(Upper(federation)))
              ELSE EmptyFilter
        f2 == IF GivenCode(sex) THEN With(f1, "sex", Eq(sex)) ELSE f1
        f3 == IF GivenCode(title) THEN With(f2, "title", Contains({title})) ELSE f2
        f4 == IF hasTitle = "true" /\ ~GivenCode(title)
              THEN With(f3, "title", NonEmpty) ELSE f3
        minVal == ParseInt(minRating)
        maxVal == ParseInt(maxRating)
        filter == IF Given(minRating) \/ Given(maxRating)
                  THEN With(f4, "standard_rating",
                            NumRange(IF Given(minRating) THEN Bound(minVal.val) ELSE NoBound,
                                     IF Given(maxRating) THEN Bound(maxVal.val) ELSE NoBound))
                  ELSE f4
        result == getRows(store, filter, p.page + 1, p.size, NoSort)
    IN  IF GivenCode(sex) /\ ~GenderOk(sex)
        THEN BadRequest("Sex must be 'M' or 'F'")
        ELSE IF Given(minRating) /\ minVal.nan
        THEN BadRequest("minRating must be a valid number")
        ELSE IF Given(maxRating) /\ maxVal.nan
        THEN BadRequest("maxRating must be a valid number")
        ELSE Listing(result.data, p.page, p.size, result, <<>>)

advancedSearch(store, federation, sex, title, minRating, maxRating, hasTitle, page, size) ==
    LET p == validatePagination(page, size)
        f1 == IF Given(federation)
              THEN With(EmptyFilter, "federation", Eq(Upper(federation)))
              ELSE EmptyFilter
        f2 == IF GivenCode(sex) THEN With(f1, "sex", Eq(sex)) ELSE f1
        f3 == IF GivenCode(title) THEN With(f2, "title", Contains({title})) ELSE f2
        f4 == IF hasTitle = "true" THEN With(f3, "title", NonEmpty) ELSE f3
        minVal == ParseInt(minRating)
        maxVal == ParseInt(maxRating)
        filter == IF Given(minRating) \/ Given(maxRating)
                  THEN With(f4, "standard_rating",
                            NumRange(IF Given(minRating) THEN Bound(minVal.val) ELSE NoBound,
                                     IF Given(maxRating) THEN Bound(maxVal.val) ELSE NoBound))
                  ELSE f4
        result == getRows(store, filter, p.page + 1, p.size, NoSort)
    IN  IF GivenCode(sex) /\ ~GenderOk(sex)
        THEN BadRequest("Sex must be 'M' or 'F'")
        ELSE IF Given(minRating) /\ minVal.nan
        THEN BadRequest("minRating must be a valid number")
        ELSE IF Given(maxRating) /\ maxVal.nan
        THEN BadRequest("maxRating must be a valid number")
        ELSE Listing(result.data, p.page, p.size, result, <<>>)

\* getPlayersByFederation that looks at gender once the page is fetched.
getPlayersByFederation_QueryFirst(store, federation, sortBy, gender, page, size) ==
    LET p == validatePagination(page, size)
        f1 == With(EmptyFilter, "federation", Eq(Upper(federation)))
        filter == IF GivenCode(gender) THEN With(f1, "sex", Eq(gender)) ELSE f1
        result == getRows(store, filter, p.page + 1, p.size, RatingField(sortBy))
    IN  IF ~Given(federation) \/ IsBlank(federation)
        THEN BadRequest("Federation code is required")
        ELSE IF GivenCode(gender) /\ ~GenderOk(gender)
        THEN ThrownAfter(result.queries, "BadRequestError",
                         "Gender must be 'M' or 'F'")
        ELSE Listing(result.data, p.page, p.size, result, Upper(federation))

getPlayersByFederation(store, federation, sortBy, gender, page, size) ==
    LET p == validatePagination(page, size)
        f1 == With(EmptyFilter, "federation", Eq(Upper(federation)))
        filter == IF GivenCode(gender) THEN With(f1, "sex", Eq(gender)) ELSE f1
        result == getRows(store, filter, p.page + 1, p.size, RatingField(sortBy))
    IN  IF ~Given(federation) \/ IsBlank(federation)
        THEN BadRequest("Federation code is required")
        ELSE IF GivenCode(gender) /\ ~GenderOk(gender)
        THEN BadRequest("Gender must be 'M' or 'F'")
        ELSE Listing(result.data, p.page, p.size, result, Upper(federation))


(***************************************************************************)
(* Age Classifier and the age-group ranking.                               *)
(***************************************************************************)
\* The ranking's list of valid codes carrying U20 in the place of S20.
RankingGroupCodes_WithU20 ==
    <<"U8", "U10", "U12", "U14", "U16", "U18", "U20", "S40", "S50", "S60", "S70">>

RankingGroupCodes ==
    <<"U8", "U10", "U12", "U14", "U16", "U18", "S20", "S40", "S50", "S60", "S70">>

\* The range table with every window one year short at its older end.
RankingAgeGroupRanges_OneYearShort(year) ==
    ("U8" :> <<year - 7, year>>) @@ ("U10" :> <<year - 9, year>>) @@
    ("U12" :> <<year - 11, year>>) @@ ("U14" :> <<year - 13, year>>) @@
    ("U16" :> <<year - 15, year>>) @@ ("U18" :> <<year - 17, year>>) @@
    ("U20" :> <<year - 18, year>>) @@
    ("S50" :> <<year - 58, year - 50>>) @@
    ("S60" :> <<year - 68, year - 60>>) @@
    ("S70" :> <<year - 78, year - 70>>)

\* The table of birth-year ranges getRankingsByAgeGroup builds; a code
\* outside its domain reads as undefined.
RankingAgeGroupRanges(year) ==
    ("U8" :> <<year - 8, year>>) @@ ("U10" :> <<year - 10, year>>) @@
    ("U12" :> <<year - 12, year>>) @@ ("U14" :> <<year - 14, year>>) @@
    ("U16" :> <<year - 16, year>>) @@ ("U18" :> <<year - 18, year>>) @@
    ("U20" :> <<year - 19, year>>) @@
    ("S50" :> <<year - 59, year - 50>>) @@
    ("S60" :> <<year - 69, year - 60>>) @@
    ("S70" :> <<year - 79, year - 70>>)

Includes(list, x) == \E i \in 1..Len(list) : list[i] = x

\* const [minBirth, maxBirth] = ranges[group]; filter = { birthday: ... }
BirthdayFilter(range) ==
    With(EmptyFilter, "birthday", Between(NatToStr(range[1]), NatToStr(range[2])))

\* parseInt(String(player.birthday) || "1900")
BirthYearOf(birthday) ==
    IF birthday = <<>> THEN ParseInt(<<"1", "9", "0", "0">>)
    ELSE ParseInt(JSString(birthday))

AgeOf(year, birthday) ==
    LET b == BirthYearOf(birthday) IN IF b.nan THEN NaN ELSE Num(year - b.val)

addRankAndAge(rows, pageNum, sizeNum, year) ==
    [i \in 1..Len(rows) |->
        ("rank" :> (pageNum * sizeNum) + (i - 1) + 1) @@
        ("age" :> AgeOf(year, rows[i].birthday)) @@ rows[i]]

getRankingsByAgeGroup(store, year, groupCode, gender, ratingType, page, size) ==
    LET p == validatePagination(page, size)
        ranges == RankingAgeGroupRanges(year)
        f1 == BirthdayFilter(ranges[groupCode])
        filter == IF GivenCode(gender) THEN With(f1, "sex", Eq(gender)) ELSE f1
        result == getRows(store, filter, p.page + 1, p.size, RatingField(ratingType))
    IN  IF ~Includes(RankingGroupCodes, groupCode)
        THEN Thrown("BadRequestError", "Invalid age group code. Allowed: ",
                    RankingGroupCodes)
        ELSE IF groupCode \notin DOMAIN ranges
        THEN Thrown("TypeError", "undefined is not iterable", <<>>)
        ELSE IF GivenCode(gender) /\ ~GenderOk(gender)
        THEN BadRequest("Gender must be 'M' or 'F'")
        ELSE Listing(addRankAndAge(result.data, p.page, p.size, year),
                     p.page, p.size, result, groupCode)

(***************************************************************************)
(* Age-group statistics.                                                   *)
(***************************************************************************)
StatsGroupCodes ==
    <<"U8", "U10", "U12", "U14", "U16", "U18", "U20", "S40", "S50", "S60", "S70">>

StatsAgeGroupRanges(year) ==
    ("U8" :> <<year - 8, year>>) @@ ("U10" :> <<year - 10, year>>) @@
    ("U12" :> <<year - 12, year>>) @@ ("U14" :> <<year - 14, year>>) @@
    ("U16" :> <<year - 16, year>>) @@ ("U18" :> <<year - 18, year>>) @@
    ("U20" :> <<year - 19, year>>) @@
    ("S40" :> <<year - 49, year - 40>>) @@
    ("S50" :> <<year - 59, year - 50>>) @@
    ("S60" :> <<year - 69, year - 60>>) @@
    ("S70" :> <<year - 79, year - 70>>)

ValidRatingTypes == <<"standard", "rapid", "blitz">>

\* The filter of one group's query.
GroupStatsFilter(year, group, gender, includeInactive) ==
    LET f1 == BirthdayFilter(StatsAgeGroupRanges(year)[group])
        f2 == IF GivenCode(gender) THEN With(f1, "sex", Eq(gender)) ELSE f1
    IN  WithActivity(f2, includeInactive)

\* rows.slice(0, n)
Slice(rows, n) == SubSeq(rows, 1, Min(Len(rows), n))

\* The rated records of one gender in store order, not sorted.
PlayersWithRating_Unsorted(allPlayers, sex, ratingField) ==
    SelectSeq(allPlayers, LAMBDA p : p.sex = sex /\ p[ratingField] # 0)

\* allPlayers.filter(p => p.sex === sex && p[ratingField])
\*           .sort((a, b) => (b[ratingField] || 0) - (a[ratingField] || 0))
PlayersWithRating(allPlayers, sex, ratingField) ==
    SortDesc(SelectSeq(allPlayers, LAMBDA p : p.sex = sex /\ p[ratingField] # 0),
             ratingField)

\* The average of the first ten ratings, rounded to two decimals and carried
\* in hundredths; null when there is no rated record.
Top10Avg(rated, ratingField) ==
    LET top == Slice(rated, 10)
        sum[k \in 0..Len(top)] ==
            IF k = 0 THEN 0 ELSE sum[k - 1] + top[k][ratingField]
        n == Min(10, Len(rated))
    IN  IF Len(rated) > 0 THEN ((200 * sum[Len(top)]) + n) \div (2 * n)
        ELSE NullValue

\* One gender's part of a group entry.
GenderStats(allPlayers, sex, ratingField) ==
    LET rated == PlayersWithRating(allPlayers, sex, ratingField)
        top == Slice(rated, 10)
    IN  [totalCount |-> Len(SelectSeq(allPlayers, LAMBDA p : p.sex = sex)),
         withRating |->
            [count |-> Len(rated),
             avgRatingTop10 |-> Top10Avg(rated, ratingField),
             top10Players |->
                [k \in 1..Len(top) |->
                    [id_number |-> top[k].id_number, name |-> top[k].name,
                     title |-> top[k].title, rating |-> top[k][ratingField],
                     birthday |-> top[k].birthday]]],
         withoutRating |->
            [count |-> Len(SelectSeq(allPlayers, LAMBDA p :
                            p.sex = sex /\ p[ratingField] = 0))]]

\* parseInt(p.birthday || "0")
BirthKey(birthday) ==
    LET b == IF birthday = NullValue THEN ParseInt(<<"0">>) ELSE ParseInt(birthday)
    IN  b.val

\* allPlayers.sort((a, b) => parseInt(b.birthday || "0") - parseInt(a.birthday || "0")):
\* a stable sort, descending by birth year.
RECURSIVE InsertByBirth(_, _)
InsertByBirth(sorted, player) ==
    IF sorted = <<>> THEN <<player>>
    ELSE IF BirthKey(Head(sorted).birthday) >= BirthKey(player.birthday)
         THEN <<Head(sorted)>> \o InsertByBirth(Tail(sorted), player)
         ELSE <<player>> \o sorted

RECURSIVE sortedByBirth(_)
sortedByBirth(allPlayers) ==
    IF allPlayers = <<>> THEN <<>>
    ELSE InsertByBirth(sortedByBirth(SubSeq(allPlayers, 1, Len(allPlayers) - 1)),
                       allPlayers[Len(allPlayers)])

\* null where a record is expected.
NullRecord == [null |-> TRUE]

\* The youngest or oldest record as the entry shows it.
Extreme(p, year, ratingField) ==
    [id_number |-> p.id_number, name |-> p.name, title |-> p.title,
     birthYear |-> p.birthday, age |-> year - BirthKey(p.birthday),
     sex |-> p.sex,
     rating |-> IF p[ratingField] # 0 THEN p[ratingField] ELSE NullValue]

\* The entry computed for one group from the records its query returned.
GroupStatsEntry(store, year, group, gender, includeInactive, ratingType) ==
    LET allPlayers == SelectSeq(store, LAMBDA player :
                        Matches(player, GroupStatsFilter(year, group, gender, includeInactive)))
        ratingField == RatingField(ratingType)
        byBirth == sortedByBirth(allPlayers)
    IN  [ageGroup |-> group,
         totalPlayers |-> Len(allPlayers),
         activePlayers |-> Len(SelectSeq(allPlayers, LAMBDA q : q.flag \in ActiveFlags)),
         inactivePlayers |-> Len(SelectSeq(allPlayers, LAMBDA q : q.flag \in InactiveFlags)),
         byGender |->
            [male |-> GenderStats(allPlayers, "M", ratingField),
             female |-> GenderStats(allPlayers, "F", ratingField)],
         extremes |->
            [youngest |-> IF Len(byBirth) > 0
                          THEN Extreme(byBirth[1], year, ratingField) ELSE NullRecord,
             oldest |-> IF Len(byBirth) > 0
                        THEN Extreme(byBirth[Len(byBirth)], year, ratingField)
                        ELSE NullRecord],
         ratingType |-> ratingType]

getAgeGroupStats(store, year, groupCode, ratingType, gender, includeInactive) ==
    LET groupsToProcess == IF GivenCode(groupCode) THEN <<groupCode>> ELSE StatsGroupCodes
        results == [i \in 1..Len(groupsToProcess) |->
                      GroupStatsEntry(store, year, groupsToProcess[i], gender,
                                      includeInactive, ratingType)]
        queries == [i \in 1..Len(groupsToProcess) |->
                      FindQuery(GroupStatsFilter(year, groupsToProcess[i], gender,
                                                 includeInactive), NoSort, 0, 0)]
    IN  IF GivenCode(gender) /\ ~GenderOk(gender)
        THEN BadRequest("Gender must be 'M' or 'F'")
        ELSE IF GivenCode(groupCode) /\ ~Includes(StatsGroupCodes, groupCode)
        THEN Thrown("BadRequestError", "Invalid age group code. Allowed: ",
                    StatsGroupCodes)
        ELSE IF ~Includes(ValidRatingTypes, ratingType)
        THEN Thrown("BadRequestError", "Invalid rating type. Allowed: ",
                    ValidRatingTypes)
        ELSE [kind |-> "ok", message |-> NoMessage, data |-> results,
              pagination |-> NoPagination, queries |-> queries,
              tag |-> IF GivenCode(groupCode) THEN "single" ELSE "all"]

(***************************************************************************)
(* Statistics Aggregator: the overall report, one aggregation over the     *)
(* (active-only unless asked otherwise) population.                        *)
(***************************************************************************)
AggregateQuery(match) ==
    [call |-> "aggregate", filter |-> match, sort |-> NoSort, skip |-> 0, limit |-> 0]

\* { $sum: { $cond: [test, 1, 0] } }: the number of rows that pass a test
SumCond(passed) == Len(passed)

\* The ratingDistribution facet whose standardOnly does not look at the
\* other two ratings.
ratingDistribution_StandardOnlyLoose(rows) ==
    [allThreeRatings |-> SumCond(SelectSeq(rows, LAMBDA q :
        q.standard_rating > 0 /\ q.rapid_rating > 0 /\ q.blitz_rating > 0)),
     standardAndRapidOnly |-> SumCond(SelectSeq(rows, LAMBDA q :
        q.standard_rating > 0 /\ q.rapid_rating > 0 /\ q.blitz_rating = 0)),
     rapidAndBlitzOnly |-> SumCond(SelectSeq(rows, LAMBDA q :
        q.standard_rating = 0 /\ q.rapid_rating > 0 /\ q.blitz_rating > 0)),
     blitzAndStandardOnly |-> SumCond(SelectSeq(rows, LAMBDA q :
        q.standard_rating > 0 /\ q.rapid_rating = 0 /\ q.blitz_rating > 0)),
     standardOnly |-> SumCond(SelectSeq(rows, LAMBDA q : q.standard_rating > 0)),
     rapidOnly |-> SumCond(SelectSeq(rows, LAMBDA q :
        q.standard_rating = 0 /\ q.rapid_rating > 0 /\ q.blitz_rating = 0)),
     blitzOnly |-> SumCond(SelectSeq(rows, LAMBDA q :
        q.standard_rating = 0 /\ q.rapid_rating = 0 /\ q.blitz_rating > 0)),
     unrated |-> SumCond(SelectSeq(rows, LAMBDA q :
        q.standard_rating = 0 /\ q.rapid_rating = 0 /\ q.blitz_rating = 0)),
     playersWithAtLeastOneRating |-> SumCond(SelectSeq(rows, LAMBDA q :
        q.standard_rating > 0 \/ q.rapid_rating > 0 \/ q.blitz_rating > 0))]

\* The ratingDistribution facet: one $group over all rows.
ratingDistribution(rows) ==
    [allThreeRatings |-> SumCond(SelectSeq(rows, LAMBDA q :
        q.standard_rating > 0 /\ q.rapid_rating > 0 /\ q.blitz_rating > 0)),
     standardAndRapidOnly |-> SumCond(SelectSeq(rows, LAMBDA q :
        q.standard_rating > 0 /\ q.rapid_rating > 0 /\ q.blitz_rating = 0)),
     rapidAndBlitzOnly |-> SumCond(SelectSeq(rows, LAMBDA q :
        q.standard_rating = 0 /\ q.rapid_rating > 0 /\ q.blitz_rating > 0)),
     blitzAndStandardOnly |-> SumCond(SelectSeq(rows, LAMBDA q :
        q.standard_rating > 0 /\ q.rapid_rating = 0 /\ q.blitz_rating > 0)),
     standardOnly |-> SumCond(SelectSeq(rows, LAMBDA q :
        q.standard_rating > 0 /\ q.rapid_rating = 0 /\ q.blitz_rating = 0)),
     rapidOnly |-> SumCond(SelectSeq(rows, LAMBDA q :
        q.standard_rating = 0 /\ q.rapid_rating > 0 /\ q.blitz_rating = 0)),
     blitzOnly |-> SumCond(SelectSeq(rows, LAMBDA q :
        q.standard_rating = 0 /\ q.rapid_rating = 0 /\ q.blitz_rating > 0)),
     unrated |-> SumCond(SelectSeq(rows, LAMBDA q :
        q.standard_rating = 0 /\ q.rapid_rating = 0 /\ q.blitz_rating = 0)),
     playersWithAtLeastOneRating |-> SumCond(SelectSeq(rows, LAMBDA q :
        q.standard_rating > 0 \/ q.rapid_rating > 0 \/ q.blitz_rating > 0))]

\* { $toInt: "$birthday" }: null stays null (carried here as the not-a-number
\* value, which is also what a comparison makes of it); a numeric string
\* becomes its value.
toInt(value) == IF value = NullValue THEN NaN ELSE ParseInt(value)

\* { $subtract: [currentYear, { $toInt: "$birthday" }] }: null when an
\* operand is null.
AgeField(year, birthday) ==
    LET b == toInt(birthday) IN IF b.nan THEN NaN ELSE Num(year - b.val)

BucketBoundaries == <<0, 8, 10, 12, 14, 16, 18, 20, 21, 30, 40, 50, 60, 70, 80, 120>>

\* default: "unknown".  In the comparisons of getAgeGroupCode the string
\* converts to not-a-number.
DefaultBucket == NaN

\* The _id of the bucket a value of the groupBy expression falls into: the
\* lower boundary of its interval, or the default bucket when it falls into
\* none.
BucketOf(age) ==
    IF age.nan \/ age.val < BucketBoundaries[1]
       \/ age.val >= BucketBoundaries[Len(BucketBoundaries)]
    THEN DefaultBucket
    ELSE Num(BucketBoundaries[
            CHOOSE i \in 1..(Len(BucketBoundaries) - 1) :
                /\ BucketBoundaries[i] <= age.val
                /\ age.val < BucketBoundaries[i + 1]])

\* The output of a bucket whose standardOnly does not look at the other two
\* ratings.
BucketOutput_StandardOnlyLoose(id, members) ==
    [_id |-> id,
     count |-> Len(members),
     ratedPlayers |-> SumCond(SelectSeq(members, LAMBDA q :
        q.standard_rating > 0 \/ q.rapid_rating > 0 \/ q.blitz_rating > 0)),
     unratedPlayers |-> SumCond(SelectSeq(members, LAMBDA q :
        q.standard_rating = 0 /\ q.rapid_rating = 0 /\ q.blitz_rating = 0)),
     allThreeRatings |-> SumCond(SelectSeq(members, LAMBDA q :
        q.standard_rating > 0 /\ q.rapid_rating > 0 /\ q.blitz_rating > 0)),
     standardOnly |-> SumCond(SelectSeq(members, LAMBDA q :
        q.standard_rating > 0)),
     rapidOnly |-> SumCond(SelectSeq(members, LAMBDA q :
        q.standard_rating = 0 /\ q.rapid_rating > 0 /\ q.blitz_rating = 0)),
     blitzOnly |-> SumCond(SelectSeq(members, LAMBDA q :
        q.standard_rating = 0 /\ q.rapid_rating = 0 /\ q.blitz_rating > 0)),
     standardAndRapidOnly |-> SumCond(SelectSeq(members, LAMBDA q :
        q.standard_rating > 0 /\ q.rapid_rating > 0 /\ q.blitz_rating = 0)),
     rapidAndBlitzOnly |-> SumCond(SelectSeq(members, LAMBDA q :
        q.standard_rating = 0 /\ q.rapid_rating > 0 /\ q.blitz_rating > 0)),
     blitzAndStandardOnly |-> SumCond(SelectSeq(members, LAMBDA q :
        q.standard_rating > 0 /\ q.rapid_rating = 0 /\ q.blitz_rating > 0)),
     maleTotal |-> SumCond(SelectSeq(members, LAMBDA q : q.sex = "M")),
     femaleTotal |-> SumCond(SelectSeq(members, LAMBDA q : q.sex = "F")),
     maleRated |-> SumCond(SelectSeq(members, LAMBDA q :
        q.sex = "M" /\ (q.standard_rating > 0 \/ q.rapid_rating > 0
                        \/ q.blitz_rating > 0))),
     femaleRated |-> SumCond(SelectSeq(members, LAMBDA q :
        q.sex = "F" /\ (q.standard_rating > 0 \/ q.rapid_rating > 0
                        \/ q.blitz_rating > 0)))]

\* output: { ... } of the $bucket stage, over the rows of one bucket.
BucketOutput(id, members) ==
    [_id |-> id,
     count |-> Len(members),
     ratedPlayers |-> SumCond(SelectSeq(members, LAMBDA q :
        q.standard_rating > 0 \/ q.rapid_rating > 0 \/ q.blitz_rating > 0)),
     unratedPlayers |-> SumCond(SelectSeq(members, LAMBDA q :
        q.standard_rating = 0 /\ q.rapid_rating = 0 /\ q.blitz_rating = 0)),
     allThreeRatings |-> SumCond(SelectSeq(members, LAMBDA q :
        q.standard_rating > 0 /\ q.rapid_rating > 0 /\ q.blitz_rating > 0)),
     standardOnly |-> SumCond(SelectSeq(members, LAMBDA q :
        q.standard_rating > 0 /\ q.rapid_rating = 0 /\ q.blitz_rating = 0)),
     rapidOnly |-> SumCond(SelectSeq(members, LAMBDA q :
        q.standard_rating = 0 /\ q.rapid_rating > 0 /\ q.blitz_rating = 0)),
     blitzOnly |-> SumCond(SelectSeq(members, LAMBDA q :
        q.standard_rating = 0 /\ q.rapid_rating = 0 /\ q.blitz_rating > 0)),
     standardAndRapidOnly |-> SumCond(SelectSeq(members, LAMBDA q :
        q.standard_rating > 0 /\ q.rapid_rating > 0 /\ q.blitz_rating = 0)),
     rapidAndBlitzOnly |-> SumCond(SelectSeq(members, LAMBDA q :
        q.standard_rating = 0 /\ q.rapid_rating > 0 /\ q.blitz_rating > 0)),
     blitzAndStandardOnly |-> SumCond(SelectSeq(members, LAMBDA q :
        q.standard_rating > 0 /\ q.rapid_rating = 0 /\ q.blitz_rating > 0)),
     maleTotal |-> SumCond(SelectSeq(members, LAMBDA q : q.sex = "M")),
     femaleTotal |-> SumCond(SelectSeq(members, LAMBDA q : q.sex = "F")),
     maleRated |-> SumCond(SelectSeq(members, LAMBDA q :
        q.sex = "M" /\ (q.standard_rating > 0 \/ q.rapid_rating > 0
                        \/ q.blitz_rating > 0))),
     femaleRated |-> SumCond(SelectSeq(members, LAMBDA q :
        q.sex = "F" /\ (q.standard_rating > 0 \/ q.rapid_rating > 0
                        \/ q.blitz_rating > 0)))]

\* The ageGroupDistribution facet: the rows bucketed by age, one document
\* per bucket that holds a row, in the order of the boundaries, the default
\* bucket last.  The averages of the bucket are not part of the model.
ageGroupDistribution(rows, year) ==
    LET ids == [i \in 1..Len(BucketBoundaries) |->
                    IF i < Len(BucketBoundaries) THEN Num(BucketBoundaries[i])
                    ELSE DefaultBucket]
        members(id) == SelectSeq(rows, LAMBDA q :
                            BucketOf(AgeField(year, q.birthday)) = id)
        all == [i \in 1..Len(ids) |-> BucketOutput(ids[i], members(ids[i]))]
    IN  SelectSeq(all, LAMBDA group : group.count > 0)

\* getAgeGroupCode(age): every comparison with a value that is not a number
\* is false, so such a value falls through to the last label.
getAgeGroupCode(age) ==
    IF ~age.nan /\ age.val < 8 THEN "U-8"
    ELSE IF ~age.nan /\ age.val < 10 THEN "U-10"
    ELSE IF ~age.nan /\ age.val < 12 THEN "U-12"
    ELSE IF ~age.nan /\ age.val < 14 THEN "U-14"
    ELSE IF ~age.nan /\ age.val < 16 THEN "U-16"
    ELSE IF ~age.nan /\ age.val < 18 THEN "U-18"
    ELSE IF ~age.nan /\ age.val < 20 THEN "U-20"
    ELSE IF ~age.nan /\ age.val < 21 THEN "U-21"
    ELSE IF ~age.nan /\ age.val < 30 THEN "Junior"
    ELSE IF ~age.nan /\ age.val < 40 THEN "Adult"
    ELSE IF ~age.nan /\ age.val < 50 THEN "40+"
    ELSE IF ~age.nan /\ age.val < 60 THEN "Senior-50+"
    ELSE IF ~age.nan /\ age.val < 70 THEN "Senior-60+"
    ELSE IF ~age.nan /\ age.val < 80 THEN "Senior-70+"
    ELSE "Senior-80+"

\* getAgeRangeForBucket(boundaryAge): ranges[boundaryAge] || `${boundaryAge}+ years`
getAgeRangeForBucket(boundaryAge) ==
    LET ranges == (0 :> "0-7 years") @@ (8 :> "8-9 years") @@
                  (10 :> "10-11 years") @@ (12 :> "12-13 years") @@
                  (14 :> "14-15 years") @@ (16 :> "16-17 years") @@
                  (18 :> "18-19 years") @@ (20 :> "20 years") @@
                  (21 :> "21-29 years") @@ (30 :> "30-39 years") @@
                  (40 :> "40-49 years") @@ (50 :> "50-59 years") @@
                  (60 :> "60-69 years") @@ (70 :> "70-79 years") @@
                  (80 :> "80+ years")
    IN  IF boundaryAge.nan THEN "unknown+ years"
        ELSE IF boundaryAge.val \in DOMAIN ranges THEN ranges[boundaryAge.val]
        ELSE "+ years"

\* One entry of the report's ageGroupDistribution, from one bucket document.
AgeGroupEntry(group) ==
    [ageGroup |-> getAgeGroupCode(group._id),
     ageRange |-> getAgeRangeForBucket(group._id),
     totalPlayers |-> group.count,
     ratedPlayers |-> group.ratedPlayers,
     unratedPlayers |-> group.unratedPlayers,
     ratingBreakdown |->
        [allThreeRatings |-> group.allThreeRatings,
         standardAndRapidOnly |-> group.standardAndRapidOnly,
         rapidAndBlitzOnly |-> group.rapidAndBlitzOnly,
         blitzAndStandardOnly |-> group.blitzAndStandardOnly,
         standardOnly |-> group.standardOnly,
         rapidOnly |-> group.rapidOnly,
         blitzOnly |-> group.blitzOnly],
     byGender |->
        [male |-> [totalPlayers |-> group.maleTotal,
                   ratedPlayers |-> group.maleRated,
                   unratedPlayers |-> group.maleTotal - group.maleRated],
         female |-> [totalPlayers |-> group.femaleTotal,
                     ratedPlayers |-> group.femaleRated,
                     unratedPlayers |-> group.femaleTotal - group.femaleRated]]]

getPlayerStats(store, year, includeInactive) ==
    LET match == WithActivity(EmptyFilter, includeInactive)
        rows == SelectSeq(store, LAMBDA player : Matches(player, match))
        ratingDist == ratingDistribution(rows)
        ageGroups == ageGroupDistribution(rows, year)
        report ==
            [totalPlayers |-> Len(rows),
             activePlayers |-> SumCond(SelectSeq(rows, LAMBDA q : q.flag \in ActiveFlags)),
             inactivePlayers |-> SumCond(SelectSeq(rows, LAMBDA q : q.flag \in InactiveFlags)),
             ratingStatistics |->
                [playersWithRatings |->
                    [allThreeRatings |-> ratingDist.allThreeRatings,
                     standardAndRapidOnly |-> ratingDist.standardAndRapidOnly,
                     rapidAndBlitzOnly |-> ratingDist.rapidAndBlitzOnly,
                     blitzAndStandardOnly |-> ratingDist.blitzAndStandardOnly,
                     standardOnly |-> ratingDist.standardOnly,
                     rapidOnly |-> ratingDist.rapidOnly,
                     blitzOnly |-> ratingDist.blitzOnly],
                 playersWithAtLeastOneRating |-> ratingDist.playersWithAtLeastOneRating,
                 unratedPlayers |-> ratingDist.unrated],
             ageGroupDistribution |->
                [i \in 1..Len(ageGroups) |-> AgeGroupEntry(ageGroups[i])]]
    IN  [kind |-> "ok", message |-> NoMessage, data |-> <<report>>,
         pagination |-> NoPagination, queries |-> <<AggregateQuery(match)>>,
         tag |-> <<>>]

(***************************************************************************)
(* Title Classifier: the title-category summary and the listing of one     *)
(* title type.  Title codes and type names are TLA+ strings; the case      *)
(* conversions of a type name are given for the names the requests use.    *)
(***************************************************************************)
TrainerCodes == <<"FST", "FT", "SI", "NI", "DI">>

ArbiterCodes == <<"IA", "FA", "NA">>

CompetitiveCodes == <<"GM", "WGM", "IM", "WIM", "FM", "WFM", "CM", "WCM">>

Range(list) == { list[i] : i \in 1..Len(list) }

\* $or: [{ title: { $in: codes } }, { w_title: { $in: codes } },
\*       { o_title: { $in: codes } }]
AnyTitleFilter(codes) ==
    << With(EmptyFilter, "title", Contains(codes)),
       With(EmptyFilter, "w_title", Contains(codes)),
       With(EmptyFilter, "o_title", Contains(codes)) >>

\* A record matches an $or when it matches one of the alternatives.
MatchesOr(player, alternatives) ==
    \E k \in 1..Len(alternatives) : Matches(player, alternatives[k])

\* The three counts every category of the summary reports.
StatusCounts(rows) ==
    [total |-> Len(rows),
     active |-> SumCond(SelectSeq(rows, LAMBDA q : q.flag \in ActiveFlags)),
     inactive |-> SumCond(SelectSeq(rows, LAMBDA q : q.flag \in InactiveFlags))]

\* $unwind: "$o_title", $match, $group by code: the records that carry the
\* code among their other titles.
OtherTitleCount(store, code) ==
    SumCond(SelectSeq(store, LAMBDA q : code \in q.o_title))

\* { $sum: { $cond: [{ $in: [code, "$title"] }, 1, 0] } }
CompetitiveCount(rows, code) ==
    SumCond(SelectSeq(rows, LAMBDA q : code \in q.title))

getTitlePlayers(store) ==
    LET trainers == SelectSeq(store, LAMBDA q :
                        Matches(q, With(EmptyFilter, "o_title",
                                        Contains(Range(TrainerCodes)))))
        arbiters == SelectSeq(store, LAMBDA q :
                        Matches(q, With(EmptyFilter, "o_title",
                                        Contains(Range(ArbiterCodes)))))
        organizers == SelectSeq(store, LAMBDA q :
                        Matches(q, With(EmptyFilter, "foa", NonEmpty)))
        chessPlayers == SelectSeq(store, LAMBDA q :
                        MatchesOr(q, AnyTitleFilter(Range(CompetitiveCodes))))
        titled == SelectSeq(store, LAMBDA q :
                        q.title # {} \/ q.w_title # {} \/ q.o_title # {})
        report ==
            [playerStatus |->
                [totalPlayers |-> Len(store),
                 activePlayers |-> StatusCounts(store).active,
                 inactivePlayers |-> StatusCounts(store).inactive],
             trainers |->
                [total |-> StatusCounts(trainers).total,
                 active |-> StatusCounts(trainers).active,
                 inactive |-> StatusCounts(trainers).inactive,
                 types |-> [fst |-> OtherTitleCount(store, "FST"),
                            ft |-> OtherTitleCount(store, "FT"),
                            si |-> OtherTitleCount(store, "SI"),
                            ni |-> OtherTitleCount(store, "NI"),
                            di |-> OtherTitleCount(store, "DI")]],
             arbiters |->
                [total |-> StatusCounts(arbiters).total,
                 active |-> StatusCounts(arbiters).active,
                 inactive |-> StatusCounts(arbiters).inactive,
                 types |-> [ia |-> OtherTitleCount(store, "IA"),
                            fa |-> OtherTitleCount(store, "FA"),
                            na |-> OtherTitleCount(store, "NA")]],
             organizers |-> StatusCounts(organizers),
             chessPlayers |->
                [total |-> StatusCounts(chessPlayers).total,
                 active |-> StatusCounts(chessPlayers).active,
                 inactive |-> StatusCounts(chessPlayers).inactive,
                 breakdown |-> [gm |-> CompetitiveCount(chessPlayers, "GM"),
                                wgm |-> CompetitiveCount(chessPlayers, "WGM"),
                                im |-> CompetitiveCount(chessPlayers, "IM"),
                                wim |-> CompetitiveCount(chessPlayers, "WIM"),
                                fm |-> CompetitiveCount(chessPlayers, "FM"),
                                wfm |-> CompetitiveCount(chessPlayers, "WFM"),
                                cm |-> CompetitiveCount(chessPlayers, "CM"),
                                wcm |-> CompetitiveCount(chessPlayers, "WCM")]],
             summary |->
                [totalTitledPlayers |-> StatusCounts(titled).total,
                 activeTitledPlayers |-> StatusCounts(titled).active,
                 inactiveTitledPlayers |-> StatusCounts(titled).inactive,
                 maleCount |-> Len(SelectSeq(titled, LAMBDA q : q.sex = "M")),
                 femaleCount |-> Len(SelectSeq(titled, LAMBDA q : q.sex = "F"))]]
    IN  [kind |-> "ok", message |-> NoMessage, data |-> <<report>>,
         pagination |-> NoPagination, queries |-> <<AggregateQuery(EmptyFilter)>>,
         tag |-> <<>>]

\* titleType.toLowerCase()
LowerType(titleType) ==
    CASE titleType = "Arbiters" -> "arbiters"
      [] titleType = "WIM" -> "wim"
      [] OTHER -> titleType

\* titleType.toUpperCase()
UpperType(titleType) ==
    CASE titleType \in {"arbiters", "Arbiters"} -> "ARBITERS"
      [] titleType = "trainers" -> "TRAINERS"
      [] titleType = "gm" -> "GM"
      [] titleType = "cm" -> "CM"
      [] titleType = "ia" -> "IA"
      [] OTHER -> titleType

titleGroups ==
    ("trainers" :> TrainerCodes) @@ ("arbiters" :> ArbiterCodes) @@
    ("gm" :> <<"GM">>) @@ ("wgm" :> <<"WGM">>) @@ ("im" :> <<"IM">>) @@
    ("wim" :> <<"WIM">>) @@ ("fm" :> <<"FM">>) @@ ("wfm" :> <<"WFM">>)

\* .sort({ name: 1 }): ascending by name, code unit by code unit; records
\* that tie keep store order.
RECURSIVE InsertByName(_, _)
InsertByName(sorted, player) ==
    IF sorted = <<>> THEN <<player>>
    ELSE IF StrLeq(Head(sorted).name, player.name)
         THEN <<Head(sorted)>> \o InsertByName(Tail(sorted), player)
         ELSE <<player>> \o sorted

RECURSIVE SortByName(_)
SortByName(rows) ==
    IF rows = <<>> THEN <<>>
    ELSE InsertByName(SortByName(SubSeq(rows, 1, Len(rows) - 1)), rows[Len(rows)])

\* The fields the listing selects.
TitleProjection(p) ==
    [name |-> p.name, id_number |-> p.id_number, federation |-> p.federation,
     sex |-> p.sex, title |-> p.title, w_title |-> p.w_title, o_title |-> p.o_title,
     standard_rating |-> p.standard_rating, rapid_rating |-> p.rapid_rating,
     blitz_rating |-> p.blitz_rating, birthday |-> p.birthday, flag |-> p.flag]

\* The filter of the listing query.
TitleTypeFilter(titles) == AnyTitleFilter(Range(titles))

\* The breakdown that counts a code wherever the record carries it.
Breakdown_AnySet(rows, titles) ==
    [code \in Range(titles) |->
        SumCond(SelectSeq(rows, LAMBDA p :
            code \in p.title \/ code \in p.w_title \/ code \in p.o_title))]

\* players.forEach(p => titles.forEach(title => {
\*     if (p.o_title?.includes(title)) breakdown[title]++ }))
Breakdown(rows, titles) ==
    [code \in Range(titles) |->
        SumCond(SelectSeq(rows, LAMBDA p : code \in p.o_title))]

\* The primaryTitle that is the category's first code, held or not.
primaryTitle_FirstOfCategory(player, titles) == titles[1]

\* titles.find(t => player.title?.includes(t) || player.w_title?.includes(t)
\*                  || player.o_title?.includes(t))
primaryTitle(player, titles) ==
    LET held == { k \in 1..Len(titles) :
                    \/ titles[k] \in player.title
                    \/ titles[k] \in player.w_title
                    \/ titles[k] \in player.o_title }
    IN  IF held = {} THEN NoParam
        ELSE titles[CHOOSE k \in held : \A j \in held : k <= j]

getPlayersByTitleType(store, titleType) ==
    LET titles == IF LowerType(titleType) \in DOMAIN titleGroups
                  THEN titleGroups[LowerType(titleType)]
                  ELSE <<UpperType(titleType)>>
        filter == TitleTypeFilter(titles)
        found == SortByName(SelectSeq(store, LAMBDA p : MatchesOr(p, filter)))
        listed == [k \in 1..Len(found) |-> TitleProjection(found[k])]
        report ==
            [titleType |-> titleType,
             totalCount |-> Len(listed),
             activeCount |-> Len(SelectSeq(listed, LAMBDA p : p.flag \in ActiveFlags)),
             inactiveCount |-> Len(SelectSeq(listed, LAMBDA p :
                                    p.flag \in InactiveFlags)),
             breakdown |-> IF LowerType(titleType) \in {"trainers", "arbiters"}
                           THEN Breakdown(listed, titles) ELSE NullRecord,
             players |-> [k \in 1..Len(listed) |->
                            ("status" :> IF listed[k].flag \in ActiveFlags
                                         THEN "active" ELSE "inactive") @@
                            ("primaryTitle" :> primaryTitle(listed[k], titles)) @@
                            listed[k]]]
    IN  [kind |-> "ok", message |-> NoMessage, data |-> <<report>>,
         pagination |-> NoPagination,
         queries |-> <<[call |-> "find", filter |-> filter, sort |-> "name",
                        skip |-> 0, limit |-> 0]>>,
         tag |-> <<>>]

(***************************************************************************)
(* A store query that fails.  No operation catches the rejection of a      *)
(* query it awaits, and every operation issues its queries in one batch    *)
(* (a single await, or one Promise.all): when the query numbered fault     *)
(* fails, all queries of the batch have been issued and the operation      *)
(* rejects with the store's error.                                         *)
(***************************************************************************)
StoreErrorText == "connection to mongodb://db:27017 timed out"

\* A failed group is left out and the other groups are reported.
WithStoreFault_PartialReport(outcome, fault) ==
    IF fault \in 1..Len(outcome.queries)
    THEN IF outcome.kind = "ok" /\ outcome.tag = "all"
         THEN [outcome EXCEPT !.data =
                  SubSeq(outcome.data, 1, fault - 1)
                      \o SubSeq(outcome.data, fault + 1, Len(outcome.data))]
         ELSE ThrownAfter(outcome.queries, "MongoServerError", StoreErrorText)
    ELSE outcome

\* The outcome of a run, given the outcome it has when no query fails.
WithStoreFault(outcome, fault) ==
    IF fault \in 1..Len(outcome.queries)
    THEN ThrownAfter(outcome.queries, "MongoServerError", StoreErrorText)
    ELSE outcome

(***************************************************************************)
(* The error handler: the status a thrown error is answered with.          *)
(***************************************************************************)
\* The classes that extend CustomError, each with its statusCode.
CustomErrors == {"BadRequestError", "NotFoundError"}

StatusOf(kind) ==
    CASE kind = "ok" -> 200
      [] kind = "BadRequestError" -> 400
      [] kind = "NotFoundError" -> 404
      [] OTHER -> 500

NoDetail == [text |-> "<undefined>", codes |-> <<>>]

GenericMessage == [text |-> "Internal Server Error", codes |-> <<>>]

\* errorHandler that always copies err.message into options.error.
errorHandler_AlwaysDetail(err, mode) ==
    IF err.kind \in CustomErrors
    THEN [message |-> err.message, code |-> StatusOf(err.kind), error |-> NoDetail]
    ELSE [message |-> GenericMessage, code |-> 500, error |-> err.message]

\* The body errorHandler answers a thrown error with.
errorHandler(err, mode) ==
    IF err.kind \in CustomErrors
    THEN [message |-> err.message, code |-> StatusOf(err.kind), error |-> NoDetail]
    ELSE [message |-> GenericMessage, code |-> 500,
          error |-> IF mode = "development" THEN err.message ELSE NoDetail]

\* res.json({ success: true, ... }) of a handler
Success == [message |-> NoMessage, code |-> 200, error |-> NoDetail]

\* The response of a handler: its result, or what errorHandler makes of the
\* error it passed to next().
Respond(outcome, mode) ==
    LET body == IF outcome.kind = "ok" THEN Success ELSE errorHandler(outcome, mode)
    IN  ("status" :> body.code) @@ ("body" :> body) @@ outcome


(***************************************************************************)
(* Populations of the record store.                                        *)
(***************************************************************************)
Player(id, name, federation, sex, flag, birthday, standard, rapid, blitz, title) ==
    [id_number |-> id, name |-> name, federation |-> federation, sex |-> sex,
     flag |-> flag, birthday |-> birthday, standard_rating |-> standard,
     rapid_rating |-> rapid, blitz_rating |-> blitz, title |-> title,
     w_title |-> {}, o_title |-> {}, foa |-> {}]

NEP == <<"N", "E", "P">>

IND == <<"I", "N", "D">>

Year(n) == NatToStr(n)

Pool ==
    << Player(<<"1">>, <<"A", "b">>, NEP, "M", NullFlag, Year(2010), 2400, 2300, 0, {"GM"}),
       Player(<<"2">>, <<"b", "a">>, NEP, "F", "w", Year(2017), 2400, 0, 2100, {}),
       Player(<<"3">>, <<"B">>, IND, "M", "i", Year(1975), 2500, 2300, 2100, {"IM"}),
       Player(<<"4">>, <<"a", "B">>, NEP, "F", "wi", NullValue, 0, 0, 0, {}),
       Player(<<"5">>, <<"a", "b", "c">>, NEP, "M", "", Year(2007), 2000, 2350, 0, {}),
       Player(<<"6">>, <<"c", "a", "b">>, NEP, "M", NullFlag, Year(2012), 2400, 2300, 1900, {"GM"}) >>

\* The records of the pool at the positions in S, in pool order.
SubPopulation(pool, S) ==
    LET F[i \in 0..Len(pool)] ==
            IF i = 0 THEN <<>>
            ELSE IF i \in S THEN Append(F[i - 1], pool[i]) ELSE F[i - 1]
    IN  F[Len(pool)]

\* Forty-five active records of one federation, several sharing a rating.
ScenarioPopulation ==
    [i \in 1..45 |->
        Player(NatToStr(100 + i), <<"a">>, NEP, "M", NullFlag, Year(2010),
               2000 + ((i * 7) % 13) * 10, 1500 + i, 0, {})]

Populations ==
    { SubPopulation(Pool, S) :
        S \in { T \in SUBSET (1..Len(Pool)) : Cardinality(T) <= MaxPlayers } }
    \cup { ScenarioPopulation }

Years == {2025, 2026}

(***************************************************************************)
(* Requests.                                                               *)
(***************************************************************************)
PageInputs == { Undefined, <<"0">>, <<"1">>, <<"2">>, <<"-", "1">>, <<"a", "b">> }

SizeInputs ==
    { Undefined, <<"0">>, <<"1">>, <<"2">>, <<"2", "0">>, <<"-", "5">>,
      <<"1", "0", "1">>, <<"x">> }

AllPaging == PageInputs \X SizeInputs

SomePaging ==
    { <<Undefined, Undefined>>, <<<<"0">>, <<"1">>>>, <<<<"1">>, <<"1">>>>,
      <<<<"2">>, <<"1">>>>, <<<<"1">>, <<"2">>>>, <<<<"-", "1">>, <<"0">>>> }

GenderInputs == { NoParam, "F", "X" }

FederationInputs == { Undefined, <<"n", "e", "p">> }

NoRequest == [op |-> "none"]

NoResponse == Respond(Thrown("none", "", <<>>), "production")

Init ==
    /\ players \in Populations
    /\ currentYear = 2025
    /\ pc = "idle"
    /\ req = NoRequest
    /\ res = NoResponse
    /\ collected = <<>>
    /\ nodeEnv = "production"
    /\ storeFault = 0

Serve(request, outcome) ==
    /\ pc' = "done"
    /\ req' = request
    /\ res' = Respond(WithStoreFault(outcome, storeFault), nodeEnv)
    /\ UNCHANGED <<players, currentYear, collected, nodeEnv, storeFault>>

GetRankingsStandard ==
    /\ pc = "idle"
    /\ \E gender \in GenderInputs, federation \in FederationInputs,
       paging \in AllPaging, includeInactive \in BOOLEAN :
        Serve([op |-> "getRankingsStandard", gender |-> gender,
               federation |-> federation, page |-> paging[1], size |-> paging[2],
               includeInactive |-> includeInactive],
              getRankingsStandard(players, gender, federation, paging[1], paging[2],
                                  includeInactive))

GetRankingsRapid ==
    /\ pc = "idle"
    /\ \E gender \in GenderInputs, federation \in FederationInputs,
       paging \in SomePaging, includeInactive \in BOOLEAN :
        Serve([op |-> "getRankingsRapid", gender |-> gender,
               federation |-> federation, page |-> paging[1], size |-> paging[2],
               includeInactive |-> includeInactive],
              getRankingsRapid(players, gender, federation, paging[1], paging[2],
                               includeInactive))

GetRankingsBlitz ==
    /\ pc = "idle"
    /\ \E gender \in GenderInputs, federation \in FederationInputs,
       paging \in SomePaging, includeInactive \in BOOLEAN :
        Serve([op |-> "getRankingsBlitz", gender |-> gender,
               federation |-> federation, page |-> paging[1], size |-> paging[2],
               includeInactive |-> includeInactive],
              getRankingsBlitz(players, gender, federation, paging[1], paging[2],
                               includeInactive))

\* GET /players/:id_number; the path segment is never empty.
GetPlayerById ==
    /\ pc = "idle"
    /\ \E id_number \in { <<"1">>, <<" ", "2", " ">>, <<"9">>, <<" ">> } :
        Serve([op |-> "getPlayerById", id_number |-> id_number],
              getPlayerById(players, id_number))

\* GET /players/search/by-fide-id; the handler passes String(id_number).
SearchByFideId ==
    /\ pc = "idle"
    /\ \E id_number \in { Undefined, <<>>, <<"1">>, <<" ", "2", " ">>, <<"9">>, <<" ">> } :
        Serve([op |-> "searchByFideId", id_number |-> id_number],
              searchByFideId(players, JSString(id_number)))

\* GET /players/search/by-name; the handler passes String(name).
SearchByName ==
    /\ pc = "idle"
    /\ \E name \in { Undefined, <<>>, <<"a">>, <<"A", "B">>, <<"z">> },
       paging \in SomePaging :
        Serve([op |-> "searchByName", name |-> name,
               page |-> paging[1], size |-> paging[2]],
              searchByName(players, JSString(name), paging[1], paging[2]))

RatingInputs ==
    { Undefined, <<"2", "0", "0", "0">>, <<"2", "4", "0", "0">>, <<"a">>,
      <<"-", "5">>, <<"2", "3", "x">> }

AdvancedSearch ==
    /\ pc = "idle"
    /\ \E federation \in { Undefined, <<"n", "e", "p">> }, sex \in { NoParam, "F", "x" },
       title \in { NoParam, "GM" }, hasTitle \in { NoParam, "true" },
       minRating \in RatingInputs,
       maxRating \in { Undefined, <<"2", "4", "0", "0">>, <<"x">> },
       paging \in { <<Undefined, Undefined>>, <<<<"1">>, <<"1">>>> } :
        Serve([op |-> "advancedSearch", federation |-> federation, sex |-> sex,
               title |-> title, hasTitle |-> hasTitle, minRating |-> minRating,
               maxRating |-> maxRating, page |-> paging[1], size |-> paging[2]],
              advancedSearch(players, federation, sex, title, minRating, maxRating,
                             hasTitle, paging[1], paging[2]))

GetPlayersByFederation ==
    /\ pc = "idle"
    /\ \E federation \in { <<"n", "e", "p">>, <<"I", "N", "D">>, <<" ">> },
       sortBy \in { NoParam, "rapid" }, gender \in { NoParam, "M", "X" },
       paging \in SomePaging :
        Serve([op |-> "getPlayersByFederation", federation |-> federation,
               sortBy |-> sortBy, gender |-> gender,
               page |-> paging[1], size |-> paging[2]],
              getPlayersByFederation(players, federation, sortBy, gender,
                                     paging[1], paging[2]))

AgePaging ==
    { <<Undefined, Undefined>>, <<<<"0">>, <<"1">>>>, <<<<"1">>, <<"2">>>> }

GroupCodeInputs ==
    { "U8", "U10", "U12", "U14", "U16", "U18", "S20", "S40", "S50", "S60", "S70",
      "U20", "u18", "X" }

GetRankingsByAgeGroup ==
    /\ pc = "idle"
    /\ \E groupCode \in GroupCodeInputs, gender \in { NoParam, "F", "X" },
       ratingType \in { NoParam, "rapid" }, paging \in AgePaging :
        Serve([op |-> "getRankingsByAgeGroup", groupCode |-> groupCode,
               gender |-> gender, ratingType |-> ratingType,
               page |-> paging[1], size |-> paging[2]],
              getRankingsByAgeGroup(players, currentYear, groupCode, gender,
                                    ratingType, paging[1], paging[2]))

\* GET /players/stats; include is (includeInactive === 'true').
GetPlayerStats ==
    /\ pc = "idle"
    /\ \E includeInactive \in BOOLEAN :
        Serve([op |-> "getPlayerStats", includeInactive |-> includeInactive],
              getPlayerStats(players, currentYear, includeInactive))

GetAgeGroupStats ==
    /\ pc = "idle"
    /\ \E groupCode \in GroupCodeInputs \cup { NoParam },
          ratingType \in { "standard", "rapid", "fast" },
          gender \in { NoParam, "F", "X" }, includeInactive \in BOOLEAN :
        Serve([op |-> "getAgeGroupStats", groupCode |-> groupCode,
               ratingType |-> ratingType, gender |-> gender,
               includeInactive |-> includeInactive],
              getAgeGroupStats(players, currentYear, groupCode, ratingType, gender,
                               includeInactive))

\* GET /players/titles/all
GetTitlePlayers ==
    /\ pc = "idle"
    /\ Serve([op |-> "getTitlePlayers"], getTitlePlayers(players))

\* res.status(400).json({ success: false, message }): the handler answers
\* itself, nothing is thrown.
Reply400(text) ==
    ("status" :> 400) @@
    ("body" :> [message |-> [text |-> text, codes |-> <<>>], code |-> 400,
                error |-> NoDetail]) @@
    Thrown("rejected", text, <<>>)

TitleTypeInputs ==
    { NoParam, "arbiters", "Arbiters", "trainers", "gm", "cm", "ia", "WIM" }

\* GET /players/titles/by-type
GetPlayersByTitleType ==
    /\ pc = "idle"
    /\ \E type \in TitleTypeInputs :
        IF ~GivenCode(type)
        THEN /\ pc' = "done"
             /\ req' = [op |-> "getPlayersByTitleType", type |-> type]
             /\ res' = Reply400("Title type is required")
             /\ UNCHANGED <<players, currentYear, collected, nodeEnv, storeFault>>
        ELSE Serve([op |-> "getPlayersByTitleType", type |-> type],
                   getPlayersByTitleType(players, type))

Next ==
    \/ GetPlayerById
    \/ SearchByFideId
    \/ GetPlayerStats
    \/ GetAgeGroupStats
    \/ GetRankingsStandard
    \/ GetRankingsRapid
    \/ GetRankingsBlitz
    \/ SearchByName
    \/ AdvancedSearch
    \/ GetPlayersByFederation
    \/ GetRankingsByAgeGroup
    \/ GetTitlePlayers
    \/ GetPlayersByTitleType

Spec == Init /\ [][Next]_vars

(***************************************************************************)
(* The same handlers in an environment where a store query may fail and    *)
(* NODE_ENV is development, production, or not set.                        *)
(***************************************************************************)
NodeEnvs == { "development", "production", NoParam }

FaultPopulations == { SubPopulation(Pool, 1..n) : n \in { 0, MaxPlayers } }

InitFault ==
    /\ players \in FaultPopulations
    /\ currentYear = 2025
    /\ pc = "idle"
    /\ req = NoRequest
    /\ res = NoResponse
    /\ collected = <<>>
    /\ nodeEnv \in NodeEnvs
    /\ storeFault \in 0..MaxFault

SpecFault == InitFault /\ [][Next]_vars


(***************************************************************************)
(* The overall statistics report over populations that hold every          *)
(* combination of rated and unrated disciplines.                           *)
(***************************************************************************)
\* Records 3 and 5 are children, record 9 has no birth year.
ProbeBirthday(i) ==
    IF i \in {3, 5} THEN Year(2018) ELSE IF i = 9 THEN NullValue ELSE Year(2000)

RatingProbe(i, sex, flag, standard, rapid, blitz) ==
    Player(NatToStr(700 + i), <<"r">>, NEP, sex, flag, ProbeBirthday(i), standard, rapid,
           blitz, {})

RatingPool ==
    << RatingProbe(1, "M", NullFlag, 2450, 0, 0),
       RatingProbe(2, "F", "w", 0, 1800, 0),
       RatingProbe(3, "M", "", 0, 0, 1700),
       RatingProbe(4, "M", "i", 2100, 2000, 0),
       RatingProbe(5, "F", NullFlag, 0, 1900, 1950),
       RatingProbe(6, "M", NullFlag, 2200, 0, 2150),
       RatingProbe(7, "F", "wi", 2300, 2250, 2200),
       RatingProbe(8, "M", NullFlag, 0, 0, 0),
       RatingProbe(9, "M", NullFlag, 1500, 1, 0) >>

RatingPopulations ==
    { SubPopulation(RatingPool, S) :
        S \in { T \in SUBSET (1..Len(RatingPool)) : Cardinality(T) <= MaxPlayers } }

InitStats ==
    /\ players \in RatingPopulations
    /\ currentYear = 2025
    /\ pc = "idle"
    /\ req = NoRequest
    /\ res = NoResponse
    /\ collected = <<>>
    /\ nodeEnv = "production"
    /\ storeFault = 0

NextStats == GetPlayerStats

SpecStats == InitStats /\ [][NextStats]_vars

(***************************************************************************)
(* The pagination engine on its own: raw page and size as they arrive in   *)
(* the query string.                                                       *)
(***************************************************************************)
RawPages ==
    { Undefined, <<>>, <<"0">>, <<"1">>, <<"7">>, <<"-", "1">>, <<"-", "0">>,
      <<"a", "b", "c">>, <<"+", "3">>, <<" ", "4">>, <<"2", "x">>, <<"0", "x", "1", "F">> }

RawSizes ==
    { Undefined, <<>>, <<"0">>, <<"1">>, <<"2">>, <<"2", "0">>, <<"5", "0">>,
      <<"9", "9">>, <<"1", "0", "0">>, <<"1", "0", "1">>, <<"1", "0", "0", "0">>,
      <<"-", "5">>, <<"-", "1">>, <<"a", "b", "c">>, <<"1", ".", "5">>, <<"0", "2", "0">> }

InitPagination ==
    /\ players = <<>>
    /\ currentYear = 2025
    /\ pc = "idle"
    /\ req \in [op : {"validatePagination"}, page : RawPages, size : RawSizes]
    /\ res = NoResponse
    /\ collected = <<>>
    /\ nodeEnv = "production"
    /\ storeFault = 0

ValidatePagination ==
    /\ pc = "idle"
    /\ req.op = "validatePagination"
    /\ pc' = "done"
    /\ res' = validatePagination(req.page, req.size)
    /\ UNCHANGED <<players, currentYear, req, collected, nodeEnv, storeFault>>

NextPagination == ValidatePagination

SpecPagination == InitPagination /\ [][NextPagination]_vars

(***************************************************************************)
(* Age-scoped operations over populations spread around the group          *)
(* boundaries, in two calendar years.                                      *)
(***************************************************************************)
AgeProbe(i, sex, flag, birthday, standard, rapid) ==
    Player(NatToStr(500 + i), <<"p">>, NEP, sex, flag, birthday, standard, rapid, 0, {})

AgePool ==
    << AgeProbe(1, "M", NullFlag, Year(2026), 0, 0),
       AgeProbe(2, "F", NullFlag, Year(2025), 0, 0),
       AgeProbe(3, "M", "", Year(2017), 1200, 1100),
       AgeProbe(4, "F", "w", Year(2015), 1300, 0),
       AgeProbe(5, "M", "i", Year(2013), 1400, 1450),
       AgeProbe(6, "F", NullFlag, Year(2011), 1400, 1500),
       AgeProbe(7, "F", "wi", Year(2009), 1700, 1700),
       AgeProbe(8, "M", NullFlag, Year(2010), 1800, 1700),
       AgeProbe(9, "M", NullFlag, Year(2007), 2100, 2000),
       AgeProbe(10, "M", NullFlag, Year(2006), 2000, 2100),
       AgeProbe(11, "F", NullFlag, NullValue, 2200, 0),
       AgeProbe(12, "M", "i", Year(1976), 2300, 2200),
       AgeProbe(13, "F", "w", Year(1975), 2250, 2200),
       AgeProbe(14, "M", NullFlag, Year(1966), 2400, 0),
       AgeProbe(15, "F", NullFlag, Year(1965), 2100, 2150),
       AgeProbe(16, "M", "", Year(1956), 2000, 1900),
       AgeProbe(17, "M", "i", Year(1955), 1900, 1950),
       AgeProbe(18, "F", NullFlag, Year(1946), 1800, 0),
       AgeProbe(19, "M", NullFlag, Year(1945), 1750, 1700) >>

\* Runs of at most MaxPlayers neighbouring records of the pool.
AgePopulations ==
    { SubPopulation(AgePool, i..(i + n - 1)) :
        i \in 1..Len(AgePool), n \in 0..MaxPlayers }

InitAge ==
    /\ players \in AgePopulations
    /\ currentYear \in Years
    /\ pc = "idle"
    /\ req = NoRequest
    /\ res = NoResponse
    /\ collected = <<>>
    /\ nodeEnv = "production"
    /\ storeFault = 0

NextAge ==
    \/ GetRankingsByAgeGroup
    \/ GetAgeGroupStats

SpecAge == InitAge /\ [][NextAge]_vars


(***************************************************************************)
(* The title operations over populations whose records carry titles,       *)
(* women's titles and other titles in every combination the categories     *)
(* distinguish.                                                            *)
(***************************************************************************)
TitleProbe(i, name, sex, flag, title, w_title, o_title, foa) ==
    [Player(NatToStr(800 + i), name, NEP, sex, flag, Year(1990), 2000 + i, 0, 0, title)
        EXCEPT !.w_title = w_title, !.o_title = o_title, !.foa = foa]

TitlePool ==
    << TitleProbe(1, <<"c">>, "M", NullFlag, {"GM"}, {}, {"FST"}, {}),
       TitleProbe(2, <<"B">>, "F", "w", {"IM"}, {"WGM"}, {}, {}),
       TitleProbe(3, <<"a">>, "M", "i", {}, {}, {"IA", "FA"}, {"IO"}),
       TitleProbe(4, <<"b">>, "F", "wi", {}, {"WFM"}, {"IA", "FT"}, {}),
       TitleProbe(5, <<"A", "a">>, "M", "", {"IA"}, {}, {}, {}),
       TitleProbe(6, <<"a">>, "M", NullFlag, {"CM"}, {}, {"NA"}, {}),
       TitleProbe(7, <<"d">>, "F", NullFlag, {}, {}, {}, {}),
       TitleProbe(8, <<"D">>, "M", NullFlag, {"FM"}, {}, {"DI", "SI", "GM"}, {}) >>

TitlePopulations ==
    { SubPopulation(TitlePool, S) :
        S \in { T \in SUBSET (1..Len(TitlePool)) : Cardinality(T) <= MaxPlayers } }

InitTitles ==
    /\ players \in TitlePopulations
    /\ currentYear = 2025
    /\ pc = "idle"
    /\ req = NoRequest
    /\ res = NoResponse
    /\ collected = <<>>
    /\ nodeEnv = "production"
    /\ storeFault = 0

NextTitles ==
    \/ GetTitlePlayers
    \/ GetPlayersByTitleType

SpecTitles == InitTitles /\ [][NextTitles]_vars

(***************************************************************************)
(* The age-group statistics step by step: the per-group queries are        *)
(* started together and each completes on its own, in any order;           *)
(* Promise.all collects the entries and the report is returned when the    *)
(* last one is in.  collected holds the entries settled so far and the     *)
(* position of the group that completed first.                             *)
(***************************************************************************)
\* Promise.all that appends each value as its promise settles.
Settle_InCompletionOrder(values, i, value) ==
    ((Cardinality(DOMAIN values) + 1) :> value) @@ values

\* Promise.all keeps the value of the i-th promise at position i.
Settle(values, i, value) == (i :> value) @@ values

NonePending == [values |-> <<>>, first |-> 0]

\* The positions of the groups whose query has not completed.
Pending ==
    { i \in 1..Len(StatsGroupCodes) :
        \A k \in DOMAIN collected.values :
            collected.values[k].ageGroup # StatsGroupCodes[i] }

GroupPopulations == { SubPopulation(AgePool, 3..(2 + (2 * MaxPlayers))) }

InitGroups ==
    /\ players \in GroupPopulations
    /\ currentYear = 2025
    /\ pc = "idle"
    /\ req = NoRequest
    /\ res = NoResponse
    /\ collected = NonePending
    /\ nodeEnv = "production"
    /\ storeFault = 0

\* GET /players/stats/age-groups up to the await: the request is validated
\* and the query of every group is started.
StartAgeGroupStats ==
    /\ pc = "idle"
    /\ \E ratingType \in { "standard", "fast" }, includeInactive \in BOOLEAN :
        LET request == [op |-> "getAgeGroupStats", groupCode |-> NoParam,
                        ratingType |-> ratingType, gender |-> NoParam,
                        includeInactive |-> includeInactive]
            outcome == getAgeGroupStats(players, currentYear, NoParam, ratingType,
                                        NoParam, includeInactive)
        IN  IF outcome.kind # "ok"
            THEN Serve(request, outcome)
            ELSE /\ pc' = "awaiting"
                 /\ req' = request
                 /\ UNCHANGED <<players, currentYear, res, collected, nodeEnv,
                                storeFault>>

\* The query of one pending group completes and its entry is computed.
CompleteGroupQuery ==
    /\ pc = "awaiting"
    /\ \E i \in Pending :
        collected' =
            [values |-> Settle(collected.values, i,
                               GroupStatsEntry(players, currentYear, StatsGroupCodes[i],
                                               req.gender, req.includeInactive,
                                               req.ratingType)),
             first |-> IF collected.first = 0 THEN i ELSE collected.first]
    /\ UNCHANGED <<players, currentYear, pc, req, res, nodeEnv, storeFault>>

\* Every promise has settled: the report is the collected entries.
ReturnAgeGroupStats ==
    /\ pc = "awaiting"
    /\ Pending = {}
    /\ pc' = "done"
    /\ res' = Respond([kind |-> "ok", message |-> NoMessage,
                       data |-> [i \in 1..Len(StatsGroupCodes) |-> collected.values[i]],
                       pagination |-> NoPagination,
                       queries |-> [i \in 1..Len(StatsGroupCodes) |->
                                      FindQuery(GroupStatsFilter(currentYear,
                                                    StatsGroupCodes[i], req.gender,
                                                    req.includeInactive), NoSort, 0, 0)],
                       tag |-> "all"], nodeEnv)
    /\ UNCHANGED <<players, currentYear, req, collected, nodeEnv, storeFault>>

NextGroups ==
    \/ StartAgeGroupStats
    \/ CompleteGroupQuery
    \/ ReturnAgeGroupStats

SpecGroups == InitGroups /\ [][NextGroups]_vars

(***************************************************************************)
(* A client that reads one ranking page by page: the query is fixed, the   *)
(* pages 0..MaxPage are requested once each, in any order, and the rows    *)
(* of every page are kept.                                                 *)
(***************************************************************************)
SweepQuery(op, gender, includeInactive, size) ==
    [op |-> op, gender |-> gender, federation |-> Undefined, groupCode |-> "U18",
     ratingType |-> NoParam, includeInactive |-> includeInactive,
     page |-> Undefined, size |-> size]

SweepQueries ==
    { SweepQuery(q[1], q[2], q[3], size) :
        q \in { <<"getRankingsStandard", NoParam, FALSE>>,
                <<"getRankingsStandard", "F", TRUE>>,
                <<"getRankingsRapid", NoParam, TRUE>>,
                <<"getRankingsBlitz", "M", FALSE>>,
                <<"getRankingsByAgeGroup", NoParam, FALSE>> },
        size \in { <<"1">>, <<"2">>, <<"2", "0">> } }

\* The ranking operation a request names, applied to the store.
RankingOutcome(store, year, r) ==
    CASE r.op = "getRankingsStandard" ->
            getRankingsStandard(store, r.gender, r.federation, r.page, r.size,
                                r.includeInactive)
      [] r.op = "getRankingsRapid" ->
            getRankingsRapid(store, r.gender, r.federation, r.page, r.size,
                             r.includeInactive)
      [] r.op = "getRankingsBlitz" ->
            getRankingsBlitz(store, r.gender, r.federation, r.page, r.size,
                             r.includeInactive)
      [] r.op = "getRankingsByAgeGroup" ->
            getRankingsByAgeGroup(store, year, r.groupCode, r.gender, r.ratingType,
                                  r.page, r.size)

InitSweep ==
    /\ players \in Populations
    /\ currentYear = 2025
    /\ pc = "sweep"
    /\ req \in SweepQueries
    /\ res = NoResponse
    /\ collected = <<>>
    /\ nodeEnv = "production"
    /\ storeFault = 0

RequestPage ==
    /\ pc = "sweep"
    /\ \E q \in (0..MaxPage) \ DOMAIN collected :
        LET request == [req EXCEPT !.page = NatToStr(q)]
            answer == Respond(RankingOutcome(players, currentYear, request), nodeEnv)
        IN  /\ req' = request
            /\ res' = answer
            /\ collected' = (q :> answer.data) @@ collected
    /\ UNCHANGED <<players, currentYear, pc, nodeEnv, storeFault>>

NextSweep == RequestPage

SpecSweep == InitSweep /\ [][NextSweep]_vars

(***************************************************************************)
(* Properties.                                                             *)
(***************************************************************************)
RankingOps ==
    {"getRankingsStandard", "getRankingsRapid", "getRankingsBlitz",
     "getRankingsByAgeGroup"}

PaginatedOps ==
    RankingOps \cup {"searchByName", "advancedSearch", "getPlayersByFederation"}

Answered(ops) == pc = "done" /\ req.op \in ops /\ res.kind = "ok"

\* A plain decimal literal 0, 1, 2, ... : digits only, no leading zero.
IsLiteral(text) ==
    /\ text # Undefined /\ text # <<>>
    /\ \A i \in 1..Len(text) : text[i] \in Digits
    /\ Len(text) > 1 => text[1] # "0"

\* The number a literal denotes, by positional notation.
RECURSIVE LiteralValue(_)
LiteralValue(text) ==
    IF Len(text) = 1 THEN DigitVal(text[1])
    ELSE 10 * LiteralValue(SubSeq(text, 1, Len(text) - 1)) + DigitVal(text[Len(text)])

IsNegativeLiteral(text) ==
    /\ text # Undefined /\ text # <<>>
    /\ Head(text) = "-" /\ IsLiteral(Tail(text)) /\ Tail(text) # <<"0">>

\* Absent, or a text without any digit.
NonNumeric(text) ==
    text = Undefined \/ \A i \in 1..Len(text) : text[i] \notin Digits

\* C1: in every ranking listing the record at 0-based index k of the
\* returned page carries rank = p*s + k + 1, for the normalized page p >= 0
\* and size s in 1..100.
C1_RankByPosition ==
    Answered(RankingOps) =>
        LET p == res.pagination.page
            s == res.pagination.size
        IN  /\ p >= 0 /\ s \in 1..100
            /\ \A k \in 0..(Len(res.data) - 1) : res.data[k + 1].rank = p * s + k + 1

C1_Witness ==
    /\ Answered({"getRankingsByAgeGroup"})
    /\ req.page = <<"1">> /\ req.size = <<"2">>
    /\ Len(res.data) = 2
    /\ res.data[1].rank = 3 /\ res.data[2].rank = 4

\* C2: the pagination envelope of every paginated operation has
\* totalItems = N (the store count), totalPages = ceil(N/s),
\* hasNext iff (p+1)*s < N and hasPrevious iff p > 0.
C2_Envelope ==
    Answered(PaginatedOps) =>
        LET norm == validatePagination(req.page, req.size)
            p == norm.page
            s == norm.size
            N == countDocuments(players, res.queries[2].filter)
            e == res.pagination
        IN  /\ e.page = p /\ e.size = s
            /\ e.totalItems = N
            /\ e.totalPages * s >= N /\ (e.totalPages - 1) * s < N
            /\ e.totalPages >= 0
            /\ e.hasNext <=> ((p + 1) * s < N)
            /\ e.hasPrevious <=> (p > 0)

C2_Witness ==
    /\ Answered({"getRankingsStandard"})
    /\ res.pagination.totalItems = 45 /\ res.pagination.totalPages = 3
    /\ res.pagination.page = 1 /\ res.pagination.size = 20
    /\ res.pagination.hasNext /\ res.pagination.hasPrevious

C4_SizeDefaultOrClamped ==
    (pc = "done" /\ req.op = "validatePagination") =>
        /\ NonNumeric(req.size) => res.size = 20
        /\ IsLiteral(req.size) =>
              res.size = Min(100, Max(1, LiteralValue(req.size)))
        /\ IsNegativeLiteral(req.size) => res.size = 1

CanonicalGroupCodes ==
    {"U8", "U10", "U12", "U14", "U16", "U18", "S20", "S40", "S50", "S60", "S70"}

CanonicalGroupList ==
    <<"U8", "U10", "U12", "U14", "U16", "U18", "S20", "S40", "S50", "S60", "S70">>

GenderAcceptable(gender) == gender \in {NoParam, "", "M", "F"}

\* C7: getRankingsByAgeGroup accepts each of the eleven canonical codes,
\* resolves it to a birth-year range and returns a ranking result; no
\* canonical code ends in an error.
C7_CanonicalCodesAnswered ==
    ( /\ pc = "done" /\ req.op = "getRankingsByAgeGroup"
      /\ req.groupCode \in CanonicalGroupCodes
      /\ GenderAcceptable(req.gender) ) =>
        /\ res.kind = "ok"
        /\ res.status = 200
        /\ res.queries[1].filter["birthday"].op = "between"

\* The birth year a four-digit birthday denotes.
YearNumber(birthday) ==
    DigitVal(birthday[1]) * 1000 + DigitVal(birthday[2]) * 100
        + DigitVal(birthday[3]) * 10 + DigitVal(birthday[4])

\* The birth-year window the specification gives a group code.
ClaimedWindow(code, year) ==
    CASE code = "U8" -> <<year - 8, year>>
      [] code = "U10" -> <<year - 10, year>>
      [] code = "U12" -> <<year - 12, year>>
      [] code = "U14" -> <<year - 14, year>>
      [] code = "U16" -> <<year - 16, year>>
      [] code = "U18" -> <<year - 18, year>>
      [] code = "S50" -> <<year - 59, year - 50>>
      [] code = "S60" -> <<year - 69, year - 60>>
      [] code = "S70" -> <<year - 79, year - 70>>

WindowCodes == {"U8", "U10", "U12", "U14", "U16", "U18", "S50", "S60", "S70"}

\* The records of the store a group request is about.
InWindow(player, code, gender, year) ==
    /\ player.birthday # NullValue
    /\ YearNumber(player.birthday) >= ClaimedWindow(code, year)[1]
    /\ YearNumber(player.birthday) <= ClaimedWindow(code, year)[2]
    /\ (gender \in {"M", "F"} => player.sex = gender)

C9_UnknownCodeRejected ==
    ( /\ pc = "done" /\ req.op = "getRankingsByAgeGroup"
      /\ req.groupCode \notin CanonicalGroupCodes ) =>
        /\ res.kind = "BadRequestError"
        /\ res.status = 400
        /\ res.message.text = "Invalid age group code. Allowed: "
        /\ res.message.codes = CanonicalGroupList
        /\ res.queries = <<>>
        /\ res.data = <<>>

C9_Witness ==
    /\ pc = "done" /\ req.op = "getRankingsByAgeGroup"
    /\ req.groupCode = "U20"
    /\ res.status = 400 /\ res.queries = <<>>
    /\ Len(players) > 0

\* C10: getAgeGroupStats without a group code returns one entry per
\* canonical code, exactly the eleven codes the age-group ranking accepts,
\* and accepts each of them when it is requested singly.
C10_StatsCoverCanonicalCodes ==
    ( /\ pc = "done" /\ req.op = "getAgeGroupStats"
      /\ GenderAcceptable(req.gender)
      /\ req.ratingType \in {"standard", "rapid", "blitz"} ) =>
        /\ req.groupCode = NoParam =>
              /\ res.kind = "ok"
              /\ Len(res.data) = 11
              /\ \A i \in 1..Len(res.data) : res.data[i].ageGroup = CanonicalGroupList[i]
        /\ req.groupCode \in CanonicalGroupCodes =>
              /\ res.kind = "ok"
              /\ Len(res.data) = 1
              /\ res.data[1].ageGroup = req.groupCode


\* The records of the store a ranking request of the sweep is about.
Ranked(player, r, year) ==
    /\ (r.gender \in {"M", "F"} => player.sex = r.gender)
    /\ IF r.op = "getRankingsByAgeGroup"
       THEN InWindow(player, r.groupCode, r.gender, year)
       ELSE r.includeInactive \/ player.flag \in ActiveFlags

\* The positions <<page, index>> of the rows collected so far.
Collected == { <<q, k>> \in (DOMAIN collected) \X (1..100) : k <= Len(collected[q]) }

\* C6: for a fixed population with N matching records and a fixed size s,
\* page p holds exactly min(s, max(0, N - p*s)) records, and the pages
\* 0..totalPages-1, requested in any order, hold every matching record
\* exactly once, with ranks that are exactly 1..N.
C6_PagesPartitionRanking ==
    (pc = "sweep" /\ DOMAIN collected # {}) =>
        LET s == LiteralValue(req.size)
            wanted == { i \in 1..Len(players) : Ranked(players[i], req, currentYear) }
            N == Cardinality(wanted)
            totalPages == res.pagination.totalPages
        IN  /\ totalPages * s >= N /\ (totalPages - 1) * s < N
            /\ \A q \in DOMAIN collected :
                  Len(collected[q]) = Min(s, Max(0, N - q * s))
            /\ (0..(totalPages - 1)) \subseteq DOMAIN collected =>
                  /\ \A i \in wanted :
                        Cardinality({ c \in Collected :
                            collected[c[1]][c[2]].id_number = players[i].id_number }) = 1
                  /\ \A r \in 1..N :
                        Cardinality({ c \in Collected :
                            collected[c[1]][c[2]].rank = r }) = 1
                  /\ Cardinality(Collected) = N

C6_Witness ==
    /\ pc = "sweep" /\ DOMAIN collected = 0..2
    /\ players = ScenarioPopulation
    /\ req.op = "getRankingsStandard" /\ req.size = <<"2", "0">> /\ req.page = <<"2">>
    /\ res.pagination.totalItems = 45 /\ res.pagination.totalPages = 3
    /\ ~res.pagination.hasNext /\ res.pagination.hasPrevious
    /\ Len(collected[2]) = 5
    /\ \A k \in 1..5 : collected[2][k].rank = 40 + k


GenderOps ==
    {"advancedSearch", "getRankingsStandard", "getRankingsRapid", "getRankingsBlitz",
     "getRankingsByAgeGroup", "getPlayersByFederation", "getAgeGroupStats"}

\* The gender parameter of a request.
GenderOf(r) == IF r.op = "advancedSearch" THEN r.sex ELSE r.gender

Supplied(code) == code \notin {NoParam, ""}

\* The number of records of the store with the given gender.
OfGender(gender) == Cardinality({ i \in 1..Len(players) : players[i].sex = gender })

\* C11: in every operation that takes a gender parameter, a supplied gender
\* other than 'M' and 'F' fails with BadRequest (HTTP 400), and a supplied
\* 'M' or 'F' restricts the result to the records of that gender.
C11_GenderValidated ==
    ( pc = "done" /\ req.op \in GenderOps /\ Supplied(GenderOf(req)) ) =>
        /\ GenderOf(req) \notin {"M", "F"} =>
              /\ res.kind = "BadRequestError"
              /\ res.status = 400
        /\ (GenderOf(req) \in {"M", "F"} /\ res.kind = "ok") =>
              IF req.op = "getAgeGroupStats"
              THEN \A k \in 1..Len(res.data) :
                      res.data[k].totalPlayers <= OfGender(GenderOf(req))
              ELSE /\ \A k \in 1..Len(res.data) : res.data[k].sex = GenderOf(req)
                   /\ res.pagination.totalItems <= OfGender(GenderOf(req))

\* C12: in advancedSearch, with a specific title and hasTitle = 'true' both
\* supplied, the predicate on the titles is the non-empty predicate alone,
\* and the result is that of the same search with hasTitle = 'true' and
\* no title.
C12_HasTitleOverridesTitle ==
    ( Answered({"advancedSearch"}) /\ Supplied(req.title) /\ req.hasTitle = "true" ) =>
        LET same == advancedSearch(players, req.federation, req.sex, NoParam,
                                   req.minRating, req.maxRating, "true",
                                   req.page, req.size)
        IN  /\ res.queries[1].filter["title"] = NonEmpty
            /\ res.queries[2].filter["title"] = NonEmpty
            /\ res.data = same.data
            /\ res.pagination = same.pagination
            /\ \A k \in 1..Len(res.data) : res.data[k].title # {}

C12_Witness ==
    /\ Answered({"advancedSearch"}) /\ req.title = "GM" /\ req.hasTitle = "true"
    /\ \E k \in 1..Len(res.data) : "GM" \notin res.data[k].title
    /\ \E i \in 1..Len(players) : players[i].title = {}

RatingBounds(r) == { r.minRating, r.maxRating }

\* A supplied bound that is a negative number or not an integer literal.
BadBound(text) == Given(text) /\ ~IsLiteral(text)

\* C13: in advancedSearch each of minRating and maxRating, if supplied, must
\* be a non-negative integer literal: a supplied bound that is negative or
\* not an integer literal fails with BadRequest (HTTP 400) and no store
\* query is issued.
C13_RatingBoundsValidated ==
    ( /\ pc = "done" /\ req.op = "advancedSearch"
      /\ ~Supplied(req.sex) \/ req.sex \in {"M", "F"}
      /\ \E bound \in RatingBounds(req) : BadBound(bound) ) =>
        /\ res.kind = "BadRequestError"
        /\ res.status = 400
        /\ res.queries = <<>>

\* The federation code a federation parameter stands for.
SameFederation(code, param) ==
    /\ Len(code) = Len(param)
    /\ \A j \in 1..Len(code) : code[j] = UpperChar(param[j])

\* The records an advanced search is about: those that satisfy every
\* supplied constraint (hasTitle taking the place of a specific title).
Satisfies(player, r, atLeast, atMost) ==
    /\ Given(r.federation) => SameFederation(player.federation, r.federation)
    /\ Supplied(r.sex) => player.sex = r.sex
    /\ IF r.hasTitle = "true" THEN player.title # {}
       ELSE Supplied(r.title) => r.title \in player.title
    /\ Given(r.minRating) => player.standard_rating >= atLeast
    /\ Given(r.maxRating) => player.standard_rating <= atMost

\* C14: every record advancedSearch returns satisfies all supplied
\* constraints (federation equal to the upper-cased parameter, standard
\* rating within the supplied bounds) and the counted total is the number
\* of records that satisfy them.
C14_AdvancedSearchExact ==
    ( /\ Answered({"advancedSearch"})
      /\ \A bound \in RatingBounds(req) : Given(bound) => IsLiteral(bound) ) =>
        LET atLeast == IF Given(req.minRating) THEN LiteralValue(req.minRating) ELSE 0
            atMost == IF Given(req.maxRating) THEN LiteralValue(req.maxRating) ELSE 0
            wanted == { i \in 1..Len(players) :
                          Satisfies(players[i], req, atLeast, atMost) }
            p == res.pagination.page
            s == res.pagination.size
        IN  /\ res.pagination.totalItems = Cardinality(wanted)
            /\ Len(res.data) = Min(s, Max(0, Cardinality(wanted) - p * s))
            /\ \A k \in 1..Len(res.data) :
                  \E i \in wanted : players[i] = res.data[k]
            /\ \A k, l \in 1..Len(res.data) :
                  res.data[k].id_number = res.data[l].id_number => k = l

C14_Witness ==
    /\ Answered({"advancedSearch"})
    /\ req.federation = <<"n", "e", "p">> /\ req.minRating = <<"2", "0", "0", "0">>
    /\ res.queries[1].filter["federation"] = Eq(<<"N", "E", "P">>)
    /\ \E k \in 1..Len(res.data) :
          res.data[k].federation = <<"N", "E", "P">> /\ res.data[k].standard_rating >= 2000
    /\ \E i \in 1..Len(players) :
          /\ players[i].federation = <<"N", "E", "P">>
          /\ players[i].standard_rating < 2000
          /\ \A k \in 1..Len(res.data) : res.data[k] # players[i]

\* C15: in every operation, an outcome that is a validation error (bad
\* gender, age-group code, rating bound or rating type, blank identifier or
\* search term) is raised before any store query of the request is issued.
C15_ValidationBeforeStore ==
    ( pc = "done" /\ res.kind = "BadRequestError" ) =>
        /\ res.queries = <<>>
        /\ res.data = <<>>
        /\ res.status = 400

C15_Witness ==
    /\ pc = "done" /\ req.op = "getPlayersByFederation" /\ req.gender = "X"
    /\ res.kind = "BadRequestError" /\ res.queries = <<>>
    /\ \E i \in 1..Len(players) : players[i].federation = Upper(req.federation)

StatsOps == {"getPlayerStats", "getAgeGroupStats"}

\* The store failed one of the queries the request issued.
QueryFailed == storeFault \in 1..Len(res.queries)

\* C16: if a store query issued by a statistics report fails (the one
\* aggregation of getPlayerStats, or any per-group query of
\* getAgeGroupStats), the whole report fails with that error: no report
\* with the results of the other facets or groups is returned, and no
\* query is issued a second time.
C16_NoPartialReport ==
    ( pc = "done" /\ req.op \in StatsOps /\ QueryFailed ) =>
        /\ res.kind = "MongoServerError"
        /\ res.message.text = StoreErrorText
        /\ res.data = <<>>
        /\ res.status = 500
        /\ \A k, l \in 1..Len(res.queries) : res.queries[k] = res.queries[l] => k = l

C16_Witness ==
    /\ pc = "done" /\ req.op = "getAgeGroupStats" /\ req.groupCode = NoParam
    /\ storeFault = 2 /\ Len(res.queries) = 11
    /\ res.kind = "MongoServerError" /\ res.data = <<>>
    /\ \E i \in 1..Len(players) : Matches(players[i], res.queries[1].filter)

LookupOps == {"getPlayerById", "searchByFideId"}

\* The identifier a lookup request hands to the service.
Identifier(r) == JSString(r.id_number)

\* The positions of the records whose id is the identifier without the
\* whitespace around it.
Holders(r) == { i \in 1..Len(players) : players[i].id_number = Trim(Identifier(r)) }

\* C17: getPlayerById and searchByFideId fail with NotFound (HTTP 404) when
\* the identifier is not blank and no record has that id, with BadRequest
\* (HTTP 400) when the identifier is blank, and return exactly the record
\* with that id (trimmed of surrounding whitespace) when there is one.
C17_LookupOutcomes ==
    ( pc = "done" /\ req.op \in LookupOps ) =>
        /\ (~IsBlank(Identifier(req)) /\ Holders(req) = {}) =>
              res.kind = "NotFoundError" /\ res.status = 404
        /\ IsBlank(Identifier(req)) =>
              res.kind = "BadRequestError" /\ res.status = 400
        /\ \A i \in Holders(req) :
              res.kind = "ok" /\ res.status = 200 /\ res.data = <<players[i]>>

\* C18: through the HTTP handlers, a name search without the name query
\* parameter and an exact-id search without the id_number query parameter
\* each fail with BadRequest (HTTP 400) and issue no store query.
C18_MissingTermRejected ==
    /\ ( pc = "done" /\ req.op = "searchByName" /\ req.name = Undefined ) =>
          /\ res.kind = "BadRequestError"
          /\ res.status = 400
          /\ res.queries = <<>>
    /\ ( pc = "done" /\ req.op = "searchByFideId" /\ req.id_number = Undefined ) =>
          /\ res.kind = "BadRequestError"
          /\ res.status = 400
          /\ res.queries = <<>>

Presence(player) ==
    <<player.standard_rating # 0, player.rapid_rating # 0, player.blitz_rating # 0>>

\* The positions of the records an overall report counts.
Counted(r) ==
    { i \in 1..Len(players) : r.includeInactive \/ players[i].flag \in ActiveFlags }

\* How many counted records are rated in exactly the given disciplines.
With3(r, standard, rapid, blitz) ==
    Cardinality({ i \in Counted(r) : Presence(players[i]) = <<standard, rapid, blitz>> })

\* C20: in the overall report over a population with non-negative ratings
\* every counted record falls under exactly one rating-presence condition:
\* the seven rated counts and the unrated count are the sizes of the eight
\* classes and sum to totalPlayers, playersWithAtLeastOneRating is
\* totalPlayers - unratedPlayers, and a record rated (2450, 0, 0) is
\* counted under standardOnly only.
C20_RatingPresencePartition ==
    ( /\ Answered({"getPlayerStats"})
      /\ \A i \in 1..Len(players) :
            /\ players[i].standard_rating >= 0
            /\ players[i].rapid_rating >= 0
            /\ players[i].blitz_rating >= 0 ) =>
        LET report == res.data[1]
            st == report.ratingStatistics
            w == st.playersWithRatings
        IN  /\ report.totalPlayers = Cardinality(Counted(req))
            /\ w.allThreeRatings = With3(req, TRUE, TRUE, TRUE)
            /\ w.standardAndRapidOnly = With3(req, TRUE, TRUE, FALSE)
            /\ w.rapidAndBlitzOnly = With3(req, FALSE, TRUE, TRUE)
            /\ w.blitzAndStandardOnly = With3(req, TRUE, FALSE, TRUE)
            /\ w.standardOnly = With3(req, TRUE, FALSE, FALSE)
            /\ w.rapidOnly = With3(req, FALSE, TRUE, FALSE)
            /\ w.blitzOnly = With3(req, FALSE, FALSE, TRUE)
            /\ st.unratedPlayers = With3(req, FALSE, FALSE, FALSE)
            /\ w.allThreeRatings + w.standardAndRapidOnly + w.rapidAndBlitzOnly
                  + w.blitzAndStandardOnly + w.standardOnly + w.rapidOnly
                  + w.blitzOnly + st.unratedPlayers = report.totalPlayers
            /\ st.playersWithAtLeastOneRating = report.totalPlayers - st.unratedPlayers

C20_Witness ==
    /\ Answered({"getPlayerStats"})
    /\ \E i \in 1..Len(players) :
          /\ players[i].standard_rating = 2450
          /\ players[i].rapid_rating = 0 /\ players[i].blitz_rating = 0
    /\ Len(players) = 3
    /\ res.data[1].totalPlayers = 3
    /\ res.data[1].ratingStatistics.playersWithRatings.standardOnly = 1
    /\ res.data[1].ratingStatistics.playersWithRatings.allThreeRatings = 1
    /\ res.data[1].ratingStatistics.unratedPlayers = 1
    /\ res.data[1].ratingStatistics.playersWithAtLeastOneRating = 2

(***************************************************************************)
(* The age buckets of the overall report.                                  *)
(***************************************************************************)
RECURSIVE SumSeq(_)
SumSeq(counts) ==
    IF counts = <<>> THEN 0 ELSE Head(counts) + SumSeq(Tail(counts))

\* A record has a derivable age when its birth year is present.
HasAge(player) == player.birthday # NullValue

\* C21: in the overall statistics report a record without a birth year is
\* counted in totalPlayers but in no entry of ageGroupDistribution, under
\* any label: the entries together count exactly the counted records that
\* have a derivable age.
C21_NoBirthYearInNoBucket ==
    Answered({"getPlayerStats"}) =>
        LET report == res.data[1]
            buckets == report.ageGroupDistribution
        IN  /\ report.totalPlayers = Cardinality(Counted(req))
            /\ SumSeq([i \in 1..Len(buckets) |-> buckets[i].totalPlayers])
                  = Cardinality({ i \in Counted(req) : HasAge(players[i]) })

\* C30: in the overall statistics report over a population that respects
\* the data model (gender M or F, one of the five activity flags,
\* non-negative ratings), every reported age bucket has ratedPlayers +
\* unratedPlayers = totalPlayers, its seven rated rating-presence counts sum
\* to ratedPlayers, its male and female totals sum to totalPlayers, each
\* gender has ratedPlayers + unratedPlayers = totalPlayers with no negative
\* count, and the report has totalPlayers = activePlayers + inactivePlayers.
C30_AgeBucketAccounts ==
    ( /\ Answered({"getPlayerStats"})
      /\ \A i \in 1..Len(players) :
            /\ players[i].sex \in {"M", "F"}
            /\ players[i].flag \in ActiveFlags \cup InactiveFlags
            /\ players[i].standard_rating >= 0
            /\ players[i].rapid_rating >= 0
            /\ players[i].blitz_rating >= 0 ) =>
        LET report == res.data[1]
            buckets == report.ageGroupDistribution
        IN  /\ report.totalPlayers = report.activePlayers + report.inactivePlayers
            /\ \A i \in 1..Len(buckets) :
                LET b == buckets[i]
                    w == b.ratingBreakdown
                    male == b.byGender.male
                    female == b.byGender.female
                IN  /\ b.ratedPlayers + b.unratedPlayers = b.totalPlayers
                    /\ w.allThreeRatings + w.standardAndRapidOnly
                          + w.rapidAndBlitzOnly + w.blitzAndStandardOnly
                          + w.standardOnly + w.rapidOnly + w.blitzOnly
                          = b.ratedPlayers
                    /\ male.totalPlayers + female.totalPlayers = b.totalPlayers
                    /\ male.ratedPlayers + male.unratedPlayers = male.totalPlayers
                    /\ female.ratedPlayers + female.unratedPlayers = female.totalPlayers
                    /\ \A n \in { male.totalPlayers, male.ratedPlayers,
                                  male.unratedPlayers, female.totalPlayers,
                                  female.ratedPlayers, female.unratedPlayers,
                                  b.ratedPlayers, b.unratedPlayers } : n >= 0

\* A report over inactive records too, with a bucket of three records: two
\* men, one rated in one discipline and one unrated, and a woman rated in
\* all three.
C30_Witness ==
    /\ Answered({"getPlayerStats"})
    /\ req.includeInactive
    /\ res.data[1].totalPlayers = 3
    /\ res.data[1].inactivePlayers = 1
    /\ \E i \in 1..Len(res.data[1].ageGroupDistribution) :
          LET b == res.data[1].ageGroupDistribution[i]
          IN  /\ b.ageGroup = "Junior"
              /\ b.totalPlayers = 3
              /\ b.ratedPlayers = 2
              /\ b.unratedPlayers = 1
              /\ b.ratingBreakdown.standardOnly = 1
              /\ b.ratingBreakdown.allThreeRatings = 1
              /\ b.byGender.male.totalPlayers = 2
              /\ b.byGender.male.unratedPlayers = 1
              /\ b.byGender.female.ratedPlayers = 1

(***************************************************************************)
(* The rating rankings: inactive records and the order of the ranks.       *)
(***************************************************************************)
RatingRankingOps == {"getRankingsStandard", "getRankingsRapid", "getRankingsBlitz"}

\* The rating a ranking request orders by.
SelectedRating(r) ==
    CASE r.op = "getRankingsStandard" -> "standard_rating"
      [] r.op = "getRankingsRapid" -> "rapid_rating"
      [] r.op = "getRankingsBlitz" -> "blitz_rating"
      [] OTHER -> IF r.ratingType = "rapid" THEN "rapid_rating"
                  ELSE IF r.ratingType = "blitz" THEN "blitz_rating"
                  ELSE "standard_rating"

\* The rows collected so far, as a set of <<page, index>> positions, read.
Row(c) == collected[c[1]][c[2]]

\* Every page of the answer has been collected.
AllCollected == (0..(res.pagination.totalPages - 1)) \subseteq DOMAIN collected

\* C25: in the three rating rankings, unless includeInactive is true no
\* returned record has flag "i" or "wi", totalItems counts only the active
\* matching records and the ranks are those of the active records alone;
\* when it is true totalItems counts inactive records too and they are
\* ranked together with the active ones, by rating.
C25_InactiveOnlyOnRequest ==
    (pc = "sweep" /\ DOMAIN collected # {} /\ req.op \in RatingRankingOps) =>
        LET matching == { i \in 1..Len(players) :
                            req.gender \in {"M", "F"} => players[i].sex = req.gender }
            active == { i \in matching : players[i].flag \in ActiveFlags }
            inactive == { i \in matching : players[i].flag \in InactiveFlags }
            field == SelectedRating(req)
        IN  IF ~req.includeInactive
            THEN /\ \A c \in Collected : Row(c).flag \notin InactiveFlags
                 /\ res.pagination.totalItems = Cardinality(active)
                 /\ \A c \in Collected : Row(c).rank \in 1..Cardinality(active)
                 /\ AllCollected =>
                       \A i \in active : \E c \in Collected :
                            Row(c).id_number = players[i].id_number
            ELSE /\ res.pagination.totalItems = Cardinality(active \cup inactive)
                 /\ AllCollected =>
                       \A i \in inactive : \E c \in Collected :
                            /\ Row(c).id_number = players[i].id_number
                            /\ Row(c).flag \in InactiveFlags
                 /\ \A c, d \in Collected :
                       Row(c)[field] > Row(d)[field] => Row(c).rank < Row(d).rank

\* The active-only standard ranking over a population whose best record is
\* inactive: the two active records take ranks 1 and 2.
C25_Witness ==
    /\ pc = "sweep" /\ req.op = "getRankingsStandard" /\ ~req.includeInactive
    /\ req.size = <<"1">> /\ DOMAIN collected = 0..1
    /\ Len(players) = 3
    /\ \E i \in 1..3 : players[i].flag = "i" /\ players[i].standard_rating = 2500
    /\ res.pagination.totalItems = 2
    /\ collected[0][1].rank = 1 /\ collected[1][1].rank = 2
    /\ collected[0][1].standard_rating < 2500

\* The rows the store holds for a ranking request, in the store's order:
\* descending by the selected rating, ties in natural order.
StoreOrder(r, year) ==
    SortDesc(SelectSeq(players, LAMBDA player : Ranked(player, r, year)),
             SelectedRating(r))

\* C26: the ranks follow the store's descending order of the selected
\* rating: within a page and across the pages of one query on a fixed
\* population, a record with a smaller rank never has a strictly lower
\* selected rating than a record with a larger rank, and the records of a
\* page are, in order, the records the store holds at the page's positions.
C26_RanksFollowRating ==
    (pc = "sweep" /\ DOMAIN collected # {}) =>
        LET field == SelectedRating(req)
            s == LiteralValue(req.size)
            order == StoreOrder(req, currentYear)
        IN  /\ \A c, d \in Collected :
                  Row(c).rank < Row(d).rank => Row(c)[field] >= Row(d)[field]
            /\ \A c \in Collected :
                  /\ c[1] * s + c[2] <= Len(order)
                  /\ Row(c).id_number = order[c[1] * s + c[2]].id_number
                  /\ Row(c).rank = c[1] * s + c[2]

\* Two pages of the rapid ranking collected out of order: the second page
\* was requested first, and its record has the lower rating.
C26_Witness ==
    /\ pc = "sweep" /\ req.op = "getRankingsRapid" /\ req.size = <<"2">>
    /\ DOMAIN collected = 0..1 /\ req.page = <<"0">>
    /\ Len(collected[0]) = 2 /\ Len(collected[1]) = 1
    /\ collected[0][1].rapid_rating > collected[0][2].rapid_rating
    /\ collected[0][2].rapid_rating = collected[1][1].rapid_rating
    /\ collected[1][1].rank = 3

(***************************************************************************)
(* The group entries of the age-group statistics.                          *)
(***************************************************************************)
\* The positions of the records of the store one group entry is about.
GroupMembers(r, group, year) ==
    { i \in 1..Len(players) :
        /\ players[i].birthday # NullValue
        /\ YearNumber(players[i].birthday) >= StatsAgeGroupRanges(year)[group][1]
        /\ YearNumber(players[i].birthday) <= StatsAgeGroupRanges(year)[group][2]
        /\ (r.gender \in {"M", "F"} => players[i].sex = r.gender)
        /\ (r.includeInactive \/ players[i].flag \in ActiveFlags) }

\* The rating of the discipline a statistics request selects.
Selected(r, player) ==
    IF r.ratingType = "rapid" THEN player.rapid_rating
    ELSE IF r.ratingType = "blitz" THEN player.blitz_rating
    ELSE player.standard_rating

\* One gender's list of an entry is right for the members of the group.
TopListRight(r, members, sex, top) ==
    LET eligible == { i \in members :
                        players[i].sex = sex /\ Selected(r, players[i]) # 0 }
        listed == { i \in eligible :
                        \E k \in 1..Len(top) : top[k].id_number = players[i].id_number }
    IN  /\ Len(top) <= 10
        /\ Len(top) = Min(10, Cardinality(eligible))
        /\ Cardinality(listed) = Len(top)
        /\ \A k \in 1..Len(top) :
              /\ top[k].rating # 0
              /\ \E i \in listed :
                    /\ top[k].id_number = players[i].id_number
                    /\ top[k].rating = Selected(r, players[i])
        /\ \A k \in 1..(Len(top) - 1) : top[k].rating >= top[k + 1].rating
        /\ \A i \in eligible \ listed : \A k \in 1..Len(top) :
              Selected(r, players[i]) <= top[k].rating

\* C28: in every group entry of the age-group statistics each gender's
\* top10Players holds at most 10 records of that gender in the group, all
\* with a non-zero rating in the selected discipline, in non-increasing
\* rating order, and no such record left out has a higher rating than a
\* listed one; extremes.youngest has the greatest birth year of the group
\* and extremes.oldest the smallest, both null when the group is empty.
C28_TopTenAndExtremes ==
    Answered({"getAgeGroupStats"}) =>
        \A e \in 1..Len(res.data) :
            LET entry == res.data[e]
                members == GroupMembers(req, entry.ageGroup, currentYear)
            IN  /\ TopListRight(req, members, "M",
                                entry.byGender.male.withRating.top10Players)
                /\ TopListRight(req, members, "F",
                                entry.byGender.female.withRating.top10Players)
                /\ IF members = {}
                   THEN /\ entry.extremes.youngest = NullRecord
                        /\ entry.extremes.oldest = NullRecord
                   ELSE /\ entry.extremes.youngest # NullRecord
                        /\ entry.extremes.oldest # NullRecord
                        /\ \E i \in members :
                              entry.extremes.youngest.id_number = players[i].id_number
                        /\ \E i \in members :
                              entry.extremes.oldest.id_number = players[i].id_number
                        /\ \A i \in members :
                              /\ YearNumber(players[i].birthday)
                                    <= YearNumber(entry.extremes.youngest.birthYear)
                              /\ YearNumber(players[i].birthday)
                                    >= YearNumber(entry.extremes.oldest.birthYear)

\* Forty-five rated boys in one group: the list holds ten of them, the
\* best first, and a group nobody belongs to has no extremes.
C28_Witness ==
    /\ Answered({"getAgeGroupStats"})
    /\ players = ScenarioPopulation
    /\ req.ratingType = "standard" /\ req.groupCode = NoParam
    /\ res.data[5].ageGroup = "U16"
    /\ res.data[5].byGender.male.withRating.count = 45
    /\ Len(res.data[5].byGender.male.withRating.top10Players) = 10
    /\ res.data[5].byGender.male.withRating.top10Players[1].rating = 2120
    /\ res.data[5].byGender.male.withRating.top10Players[10].rating = 2090
    /\ res.data[5].extremes.youngest # NullRecord
    /\ res.data[8].extremes.youngest = NullRecord

\* C27: the per-group queries of the age-group statistics may complete in
\* any order: every settled entry sits at the position of its group, and
\* the assembled report is the same whatever the order was: its i-th entry
\* is the entry of the i-th group code, computed from that group's records.
C27_OrderOfCompletionIrrelevant ==
    /\ pc \in {"awaiting", "done"} /\ req.op = "getAgeGroupStats" =>
          \A k \in DOMAIN collected.values :
              /\ k \in 1..Len(StatsGroupCodes)
              /\ collected.values[k].ageGroup = StatsGroupCodes[k]
    /\ Answered({"getAgeGroupStats"}) =>
          /\ Len(res.data) = Len(StatsGroupCodes)
          /\ \A i \in 1..Len(res.data) :
                /\ res.data[i].ageGroup = StatsGroupCodes[i]
                /\ res.data[i].totalPlayers
                      = Cardinality(GroupMembers(req, StatsGroupCodes[i], currentYear))
          /\ res.data = getAgeGroupStats(players, currentYear, req.groupCode,
                                         req.ratingType, req.gender,
                                         req.includeInactive).data

\* A report whose last group completed first: the entry of that group is
\* still the last one, and the entries differ.
C27_Witness ==
    /\ Answered({"getAgeGroupStats"})
    /\ collected.first = Len(StatsGroupCodes)
    /\ res.data[1].ageGroup = "U8" /\ res.data[1].totalPlayers = 1
    /\ res.data[2].ageGroup = "U10" /\ res.data[2].totalPlayers = 2
    /\ res.data[11].ageGroup = "S70" /\ res.data[11].totalPlayers = 0
    /\ res.data[6].totalPlayers > res.data[2].totalPlayers

(***************************************************************************)
(* The title categories.                                                   *)
(***************************************************************************)
\* The codes of the category a listing request names, in the category's
\* order.
CategoryCodes(type) ==
    CASE type \in {"arbiters", "Arbiters"} -> <<"IA", "FA", "NA">>
      [] type = "trainers" -> <<"FST", "FT", "SI", "NI", "DI">>
      [] type = "gm" -> <<"GM">>
      [] type = "cm" -> <<"CM">>
      [] type = "ia" -> <<"IA">>
      [] type = "WIM" -> <<"WIM">>

\* The record carries the code in one of its three title sets.
Holds(player, code) ==
    code \in player.title \/ code \in player.w_title \/ code \in player.o_title

\* The positions of the records whose other titles contain the code.
WithOtherTitle(code) == { i \in 1..Len(players) : code \in players[i].o_title }

\* The record at a position of the store is one of the listed records.
Listed(i) ==
    \E k \in 1..Len(res.data[1].players) :
        res.data[1].players[k].id_number = players[i].id_number

\* C22: every record whose other titles contain IA is returned by the
\* listing of the arbiters and counted under IA in the breakdown, whatever
\* its titles and women's titles contain; for the two grouped categories
\* (trainers, arbiters) every record with a code of the category among its
\* other titles is returned, and breakdown[c] is the number of records of
\* the store whose other titles contain c.
C22_OtherTitleSubTypes ==
    ( Answered({"getPlayersByTitleType"}) /\ req.type \in {"arbiters", "trainers"} ) =>
        LET codes == CategoryCodes(req.type)
        IN  \A j \in 1..Len(codes) :
                /\ \A i \in WithOtherTitle(codes[j]) : Listed(i)
                /\ res.data[1].breakdown[codes[j]]
                      = Cardinality(WithOtherTitle(codes[j]))

\* The arbiters of a store with two records that carry IA, one among its
\* other titles (next to a women's title and a trainer code) and one among
\* its titles only: both are listed, IA counts one.
C22_Witness ==
    /\ Answered({"getPlayersByTitleType"}) /\ req.type = "arbiters"
    /\ \E i \in 1..Len(players) :
          /\ "IA" \in players[i].o_title /\ players[i].w_title # {}
          /\ Listed(i)
    /\ \E i \in 1..Len(players) :
          "IA" \in players[i].title /\ "IA" \notin players[i].o_title
    /\ res.data[1].totalCount = 2
    /\ res.data[1].breakdown["IA"] = 1
    /\ res.data[1].breakdown["FA"] = 0

\* C23: trainer and arbiter membership is decided by the other titles
\* alone: the listing of the arbiters (of the trainers) returns only
\* records whose other titles contain a code of the category; a record that
\* carries such a code only in its titles or women's titles is not returned.
C23_MembershipByOtherTitlesOnly ==
    ( Answered({"getPlayersByTitleType"}) /\ req.type \in {"arbiters", "trainers"} ) =>
        \A k \in 1..Len(res.data[1].players) :
            res.data[1].players[k].o_title \cap Range(CategoryCodes(req.type)) # {}

\* C24: every record the listing of a title type returns carries status
\* "active" when its flag is absent, empty or "w" and "inactive" when it is
\* "i" or "wi", and a defined primaryTitle: the first code, in the
\* category's order, that the record carries in its titles, women's titles
\* or other titles.
C24_StatusAndPrimaryTitle ==
    Answered({"getPlayersByTitleType"}) =>
        LET codes == CategoryCodes(req.type)
        IN  \A k \in 1..Len(res.data[1].players) :
                LET row == res.data[1].players[k]
                IN  /\ row.flag \in {NullFlag, "", "w"} => row.status = "active"
                    /\ row.flag \in {"i", "wi"} => row.status = "inactive"
                    /\ row.primaryTitle # NoParam
                    /\ \E j \in 1..Len(codes) :
                          /\ row.primaryTitle = codes[j]
                          /\ Holds(row, codes[j])
                          /\ \A h \in 1..(j - 1) : ~Holds(row, codes[h])

\* The arbiters: an inactive record that carries IA and FA has IA, an
\* active record that carries only NA has NA.
C24_Witness ==
    /\ Answered({"getPlayersByTitleType"}) /\ req.type = "arbiters"
    /\ \E k \in 1..Len(res.data[1].players) :
          LET row == res.data[1].players[k]
          IN  /\ row.flag = "i" /\ row.status = "inactive"
              /\ row.o_title = {"IA", "FA"} /\ row.primaryTitle = "IA"
    /\ \E k \in 1..Len(res.data[1].players) :
          LET row == res.data[1].players[k]
          IN  /\ row.flag = NullFlag /\ row.status = "active"
              /\ row.primaryTitle = "NA"

\* The positions of the records that carry the code in any title set.
Holding(code) == { i \in 1..Len(players) : Holds(players[i], code) }

\* C29: in the title-category summary a competitive title counts as held
\* when it is in any of the three title sets: chessPlayers.total is the
\* number of records that hold at least one of the eight competitive codes
\* in any set, and each breakdown count is the number of records that hold
\* that code in any set.
C29_CompetitiveTitlesAnySet ==
    Answered({"getTitlePlayers"}) =>
        LET chess == res.data[1].chessPlayers
        IN  /\ chess.total = Cardinality(UNION { Holding(c) : c \in
                    {"GM", "WGM", "IM", "WIM", "FM", "WFM", "CM", "WCM"} })
            /\ chess.breakdown.gm = Cardinality(Holding("GM"))
            /\ chess.breakdown.wgm = Cardinality(Holding("WGM"))
            /\ chess.breakdown.im = Cardinality(Holding("IM"))
            /\ chess.breakdown.wim = Cardinality(Holding("WIM"))
            /\ chess.breakdown.fm = Cardinality(Holding("FM"))
            /\ chess.breakdown.wfm = Cardinality(Holding("WFM"))
            /\ chess.breakdown.cm = Cardinality(Holding("CM"))
            /\ chess.breakdown.wcm = Cardinality(Holding("WCM"))

=============================================================================
